---- MODULE Spec2Model ----
(***************************************************************************)
(* karana: symbolic series arithmetic (karana/_expression.py), its         *)
(* placeholder serialisation, and the line-graph runtime that is embedded  *)
(* in the generated document (karana/_line_graph.py): tokenizer,           *)
(* shunting-yard parser, RPN evaluator and the chart controller.           *)
(*                                                                         *)
(* Numbers are exact rationals <<n, d>> with d > 0 in lowest terms.        *)
(* <<0, 0>> stands for null / None and <<0, -1>> for NaN.  Texts are       *)
(* sequences of one-character strings.                                     *)
(***************************************************************************)
EXTENDS Integers, Sequences, FiniteSets, TLC

VARIABLES
    \* authoring side (python)
    tree,           \* the default expression handed to default_exp
    dataKey,        \* which dataset of the payload is the default one
    pc,             \* "built" | "rendered" | "tokens" | "rpn" | "eval" | "done" | "failed"
    seriesNames,    \* payload.defaults.seriesNames
    text,           \* payload.defaults.expressions[0]
    result,         \* evaluateExpression's outcome on the payload
    item,           \* the LineGraph or Plot that show() is called on
    file,           \* the output file of show()
    df,             \* the dataframe handed to _convert_df
    converted,      \* the _Dataset it returns, or the error it raises
    keyArg,         \* the key the script hands to default_df
    traceName,      \* the trace name expressionDisplayLabel returns
    \* runtime evaluator, one loop iteration per step
    exprText, regionSeries, tokens, rpn, pos, stack, lastStep,
    \* line-graph controller
    state,          \* [datasetKey, regionNames, expressions]
    statusMessage,  \* statusMessage.textContent
    chart,          \* what Plotly shows
    administrations,\* payload.administrations
    dom,            \* the controls the handlers are attached to
    lastEvent       \* the handler that ran last

vars == <<tree, dataKey, pc, seriesNames, text, result, item, file, df, converted, keyArg, traceName,
          exprText, regionSeries, tokens, rpn, pos, stack, lastStep,
          state, statusMessage, chart, administrations, dom, lastEvent>>

exprVars == <<tree, dataKey, seriesNames, text, result, item, file, df, converted, keyArg, traceName>>
evalVars == <<exprText, regionSeries, tokens, rpn, pos, stack, lastStep>>
ctrlVars == <<state, statusMessage, chart, administrations, dom, lastEvent>>

(***************************************************************************)
(* Bounds                                                                  *)
(***************************************************************************)
MaxNodes == 5       \* nodes of a default expression tree
MaxSlots == 2       \* series slots the add button is pressed up to
MaxChars == 5       \* characters of a text typed into the parser
MaxInfix == 5       \* tokens of an infix expression
MaxGraphs == 2      \* entries of a Plot
MaxCols == 2        \* year columns of a dataframe
MaxExprs == 2       \* expression slots the add button is pressed up to

(***************************************************************************)
(* Numbers                                                                 *)
(***************************************************************************)
Null == <<0, 0>>
NaN == <<0, -1>>

IsNull(v) == v[2] = 0
IsNaN(v) == v[2] < 0

Abs(n) == IF n < 0 THEN -n ELSE n

RECURSIVE Gcd(_, _)
Gcd(a, b) == IF b = 0 THEN a ELSE Gcd(b, a % b)

Norm(n, d) ==
    LET s == IF d < 0 THEN -1 ELSE 1
        g == Gcd(Abs(n), Abs(d))
    IN  <<(s * n) \div g, (s * d) \div g>>

Num(n) == <<n, 1>>
RAdd(x, y) == Norm(x[1] * y[2] + y[1] * x[2], x[2] * y[2])
RSub(x, y) == Norm(x[1] * y[2] - y[1] * x[2], x[2] * y[2])
RMul(x, y) == Norm(x[1] * y[1], x[2] * y[2])
RDiv(x, y) == Norm(x[1] * y[2], x[2] * y[1])
RNeg(x) == <<-x[1], x[2]>>
IsInteger(x) == x[2] = 1
\* numeric >= lo and numeric <= hi, for a non-NaN number
InRange(x, lo, hi) == x[1] >= lo * x[2] /\ x[1] <= hi * x[2]

(***************************************************************************)
(* Characters                                                              *)
(***************************************************************************)
Digits == <<"0", "1", "2", "3", "4", "5", "6", "7", "8", "9">>
IsDigit(ch) == \E i \in 1..10 : Digits[i] = ch
DigitValue(ch) == (CHOOSE i \in 1..10 : Digits[i] = ch) - 1

RECURSIVE NatToStr(_)
NatToStr(n) ==
    IF n < 10 THEN <<Digits[n + 1]>>
    ELSE NatToStr(n \div 10) \o <<Digits[(n % 10) + 1]>>

\* python str(int)
IntToStr(n) == IF n < 0 THEN <<"-">> \o NatToStr(-n) ELSE NatToStr(n)

(***************************************************************************)
(* Expression trees: karana/_expression.py                                 *)
(***************************************************************************)
SeriesRef(name) == [kind |-> "series", name |-> name]
Literal(value) == [kind |-> "literal", value |-> value]
UnaryOp(kind, operand) == [kind |-> kind, operand |-> operand]
BinaryOp(kind, left, right) == [kind |-> kind, left |-> left, right |-> right]

series(name) == SeriesRef(name)

BinaryKinds == {"add", "sub", "mul", "div"}
IsBinary(t) == t.kind \in BinaryKinds

_SYMBOL == [add |-> "+", sub |-> "-", mul |-> "*", div |-> "/"]
_PREC == [add |-> 1, sub |-> 1, mul |-> 2, div |-> 2, neg |-> 3]

IndexOf(seq, x) == CHOOSE i \in 1..Len(seq) : seq[i] = x
Contains(seq, x) == \E i \in 1..Len(seq) : seq[i] = x

\* _collect_series: order is the list being built, seen its set of names
\* a variant that visits the right operand of a binary node before the left
RECURSIVE CollectInto_RightFirst(_, _)
CollectInto_RightFirst(t, order) ==
    IF t.kind = "series" THEN
        IF Contains(order, t.name) THEN order ELSE Append(order, t.name)
    ELSE IF t.kind = "literal" THEN order
    ELSE IF t.kind = "neg" THEN CollectInto_RightFirst(t.operand, order)
    ELSE CollectInto_RightFirst(t.left, CollectInto_RightFirst(t.right, order))

RECURSIVE CollectInto(_, _)
CollectInto(t, order) ==
    IF t.kind = "series" THEN
        IF Contains(order, t.name) THEN order ELSE Append(order, t.name)
    ELSE IF t.kind = "literal" THEN order
    ELSE IF t.kind = "neg" THEN CollectInto(t.operand, order)
    ELSE CollectInto(t.right, CollectInto(t.left, order))

collect_series(t) == CollectInto(t, <<>>)

\* Literal._to_placeholder: str(int(value)) for an integral float, else
\* repr(value); the literals of the model are integers and halves, whose
\* repr is the integer part followed by ".5"
LiteralText(value) ==
    IF IsInteger(value) THEN IntToStr(value[1])
    ELSE (IF value[1] < 0 THEN <<"-">> ELSE <<>>)
            \o NatToStr(Abs(value[1]) \div 2) \o <<".", "5">>

Parens(s) == <<"(">> \o s \o <<")">>

\* the precedence the right operand of a BinaryOp is rendered under
RightPrec(kind) == IF kind \in {"sub", "div"} THEN _PREC[kind] - 1 ELSE _PREC[kind]

\* _to_placeholder; mapping[name] is IndexOf(series_order, name)
RECURSIVE ToPlaceholder(_, _, _)
ToPlaceholder(t, series_order, parent_prec) ==
    IF t.kind = "series" THEN IntToStr(IndexOf(series_order, t.name))
    ELSE IF t.kind = "literal" THEN LiteralText(t.value)
    ELSE IF t.kind = "neg" THEN
        LET prec == _PREC["neg"]
            inner == ToPlaceholder(t.operand, series_order, prec)
            txt == <<"-">> \o inner
        IN  IF prec < parent_prec THEN Parens(txt) ELSE txt
    ELSE
        LET symbol == _SYMBOL[t.kind]
            prec == _PREC[t.kind]
            left_text == ToPlaceholder(t.left, series_order, prec)
            right_text == ToPlaceholder(t.right, series_order, RightPrec(t.kind))
            expr == left_text \o <<" ", symbol, " ">> \o right_text
        IN  IF prec < parent_prec THEN Parens(expr) ELSE expr

\* a KeyError of SeriesRef._to_placeholder
UnknownSeries(t, series_order) ==
    \E i \in 1..Len(collect_series(t)) : ~Contains(series_order, collect_series(t)[i])

to_placeholder_expression(t, series_order) == ToPlaceholder(t, series_order, 0)

(***************************************************************************)
(* Expression runtime: the script of karana/_line_graph.py                 *)
(***************************************************************************)
NoError == ""

IsSpace(ch) == ch \in {" ", "\t", "\n"}
IsSymbol(ch) == ch \in {"+", "-", "*", "/", "(", ")"}
IsNumberChar(ch) == IsDigit(ch) \/ ch = "."

\* the inner while loop of tokenize: the index after the run of digits and dots
RECURSIVE NumberEnd(_, _)
NumberEnd(expression, i) ==
    IF i <= Len(expression) /\ IsNumberChar(expression[i])
    THEN NumberEnd(expression, i + 1)
    ELSE i

RECURSIVE TokenizeFrom(_, _, _)
TokenizeFrom(expression, i, toks) ==
    IF i > Len(expression) THEN [error |-> NoError, tokens |-> toks]
    ELSE LET ch == expression[i] IN
        IF IsSpace(ch) THEN TokenizeFrom(expression, i + 1, toks)
        ELSE IF IsSymbol(ch) THEN TokenizeFrom(expression, i + 1, Append(toks, <<ch>>))
        ELSE IF IsNumberChar(ch) THEN
            LET j == NumberEnd(expression, i + 1)
            IN  TokenizeFrom(expression, j, Append(toks, SubSeq(expression, i, j - 1)))
        ELSE [error |-> "Unexpected character in expression.", tokens |-> toks]

tokenize(expression) == TokenizeFrom(expression, 1, <<>>)

\* token.includes(".")
HasDot(token) == Contains(token, ".")

RECURSIVE Pow10(_)
Pow10(k) == IF k = 0 THEN 1 ELSE 10 * Pow10(k - 1)

RECURSIVE DigitsValue(_, _)
DigitsValue(token, acc) ==
    IF token = <<>> THEN acc
    ELSE IF Head(token) = "." THEN DigitsValue(Tail(token), acc)
    ELSE DigitsValue(Tail(token), 10 * acc + DigitValue(Head(token)))

\* Number(token) for a token of digits and dots
ToNumber(token) ==
    LET dots == Cardinality({i \in 1..Len(token) : token[i] = "."})
    IN  IF dots > 1 \/ dots = Len(token) THEN NaN
        ELSE IF dots = 0 THEN Num(DigitsValue(token, 0))
        ELSE Norm(DigitsValue(token, 0), Pow10(Len(token) - IndexOf(token, ".")))

precedence == [p \in {"+", "-"} |-> 1] @@ [p \in {"*", "/"} |-> 2] @@ [p \in {"u-"} |-> 3]
associativity == [p \in {"+", "-", "*", "/"} |-> "L"] @@ [p \in {"u-"} |-> "R"]

OpToken(op) == [type |-> "op", op |-> op]
RegionToken(index) == [type |-> "region", index |-> index]
LiteralToken(value) == [type |-> "literal", value |-> value]

Top(s) == s[Len(s)]
Pop(s) == SubSeq(s, 1, Len(s) - 1)

\* on ")": pop operators to the output until "(" is on top
RECURSIVE PopToParen(_, _)
PopToParen(output, operators) ==
    IF Len(operators) > 0 /\ Top(operators) # "("
    THEN PopToParen(Append(output, OpToken(Top(operators))), Pop(operators))
    ELSE [output |-> output, operators |-> operators]

\* on a binary operator: pop operators that bind at least as tightly
\* a variant that pops only the operators that bind strictly tighter
RECURSIVE PopByPrecedence_StrictOnly(_, _, _)
PopByPrecedence_StrictOnly(output, operators, token) ==
    IF Len(operators) = 0 \/ Top(operators) = "(" THEN [output |-> output, operators |-> operators]
    ELSE IF precedence[Top(operators)] > precedence[token]
         THEN PopByPrecedence_StrictOnly(Append(output, OpToken(Top(operators))),
                                         Pop(operators), token)
         ELSE [output |-> output, operators |-> operators]

RECURSIVE PopByPrecedence(_, _, _)
PopByPrecedence(output, operators, token) ==
    IF Len(operators) = 0 \/ Top(operators) = "(" THEN [output |-> output, operators |-> operators]
    ELSE LET topPrec == precedence[Top(operators)]
             tokenPrec == precedence[token]
         IN  IF topPrec > tokenPrec \/ (topPrec = tokenPrec /\ associativity[token] = "L")
             THEN PopByPrecedence(Append(output, OpToken(Top(operators))), Pop(operators), token)
             ELSE [output |-> output, operators |-> operators]

\* a variant of the final drain that lets a leftover "(" through
RECURSIVE Drain_KeepsParen(_, _)
Drain_KeepsParen(output, operators) ==
    IF Len(operators) = 0 THEN [error |-> NoError, output |-> output]
    ELSE IF Top(operators) \in {"(", ")"}
         THEN Drain_KeepsParen(output, Pop(operators))
         ELSE Drain_KeepsParen(Append(output, OpToken(Top(operators))), Pop(operators))

\* the final drain of the operator stack
RECURSIVE Drain(_, _)
Drain(output, operators) ==
    IF Len(operators) = 0 THEN [error |-> NoError, output |-> output]
    ELSE IF Top(operators) \in {"(", ")"}
         THEN [error |-> "Mismatched parentheses in expression.", output |-> output]
         ELSE Drain(Append(output, OpToken(Top(operators))), Pop(operators))

\* a variant without the upper limit regionCount
ClassifyNumber_NoUpperLimit(token, numeric, regionCount) ==
    IF ~HasDot(token) /\ numeric[1] >= numeric[2]
    THEN RegionToken(numeric[1] - 1)
    ELSE LiteralToken(numeric)

\* a variant without the test for the decimal point
ClassifyNumber_IgnoresDot(token, numeric, regionCount) ==
    IF IsInteger(numeric) /\ InRange(numeric, 1, regionCount)
    THEN RegionToken(numeric[1] - 1)
    ELSE LiteralToken(numeric)

\* a number token of value numeric: a region reference or a literal
ClassifyNumber(token, numeric, regionCount) ==
    IF ~HasDot(token) /\ InRange(numeric, 1, regionCount)
    THEN RegionToken(numeric[1] - 1)
    ELSE LiteralToken(numeric)

RECURSIVE ShuntFrom(_, _, _, _, _, _)

\* token ")" once the operators above the "(" are popped (p)
ShuntCloseParen(toks, i, p, regionCount) ==
    IF Len(p.operators) = 0
    THEN [error |-> "Mismatched parentheses in expression.", output |-> p.output]
    ELSE ShuntFrom(toks, i + 1, p.output, Pop(p.operators), FALSE, regionCount)

\* a binary operator once the operators that bind tighter are popped (p)
ShuntOperator(toks, i, p, op, regionCount) ==
    ShuntFrom(toks, i + 1, p.output, Append(p.operators, op), TRUE, regionCount)

\* a number token, numeric its value
ShuntNumber(toks, i, output, operators, numeric, regionCount) ==
    IF IsNaN(numeric)
    THEN [error |-> "Invalid number token.", output |-> output]
    ELSE ShuntFrom(toks, i + 1, Append(output, ClassifyNumber(toks[i], numeric, regionCount)),
                   operators, FALSE, regionCount)

\* the loop over the tokens, from token i on
ShuntFrom(toks, i, output, operators, expectOperand, regionCount) ==
    IF i > Len(toks) THEN Drain(output, operators)
    ELSE IF toks[i] = <<"(">> THEN
        ShuntFrom(toks, i + 1, output, Append(operators, "("), TRUE, regionCount)
    ELSE IF toks[i] = <<")">> THEN
        ShuntCloseParen(toks, i, PopToParen(output, operators), regionCount)
    ELSE IF Len(toks[i]) = 1 /\ toks[i][1] \in {"+", "-", "*", "/"} THEN
        IF toks[i][1] = "-" /\ expectOperand
        THEN ShuntFrom(toks, i + 1, output, Append(operators, "u-"), expectOperand, regionCount)
        ELSE ShuntOperator(toks, i, PopByPrecedence(output, operators, toks[i][1]),
                           toks[i][1], regionCount)
    ELSE ShuntNumber(toks, i, output, operators, ToNumber(toks[i]), regionCount)

shuntingYard(toks, regionCount) == ShuntFrom(toks, 1, <<>>, <<>>, TRUE, regionCount)

ArrayValue(values) == [type |-> "array", values |-> values]
ScalarValue(value) == [type |-> "scalar", value |-> value]

toArray(value, length) ==
    IF value.type = "array" THEN value.values
    ELSE [i \in 1..length |-> value.value]

\* BinaryAt without the null test: null counts as 0, as in lv + null
BinaryAt_NullAsZero(op, lv, rv) ==
    LET l == IF IsNull(lv) THEN Num(0) ELSE lv
        r == IF IsNull(rv) THEN Num(0) ELSE rv
    IN  IF op = "+" THEN RAdd(l, r)
        ELSE IF op = "-" THEN RSub(l, r)
        ELSE IF op = "*" THEN RMul(l, r)
        ELSE IF r = Num(0) THEN Null ELSE RDiv(l, r)

\* BinaryAt without the test of the divisor: lv / 0 is not a number
BinaryAt_NoZeroTest(op, lv, rv) ==
    IF IsNull(lv) \/ IsNull(rv) THEN Null
    ELSE IF op = "+" THEN RAdd(lv, rv)
    ELSE IF op = "-" THEN RSub(lv, rv)
    ELSE IF op = "*" THEN RMul(lv, rv)
    ELSE IF rv = Num(0) THEN NaN ELSE RDiv(lv, rv)

\* one index of the binary loop of evaluateExpression
BinaryAt(op, lv, rv) ==
    IF IsNull(lv) \/ IsNull(rv) THEN Null
    ELSE IF op = "+" THEN RAdd(lv, rv)
    ELSE IF op = "-" THEN RSub(lv, rv)
    ELSE IF op = "*" THEN RMul(lv, rv)
    ELSE IF rv = Num(0) THEN Null ELSE RDiv(lv, rv)

\* one index of the unary map of evaluateExpression
\* a variant without the test for null: -null is 0 in JavaScript
NegateAt_NoNullTest(v) == IF IsNull(v) THEN Num(0) ELSE RNeg(v)

NegateAt(v) == IF IsNull(v) THEN Null ELSE RNeg(v)

\* array.map((v) => (v == null ? null : -v))
NegateArray(array) == [i \in 1..Len(array) |-> NegateAt(array[i])]

\* the loop  for (let i = 0; i < yearsCount; i += 1)  of a binary operator
BinaryArray(op, leftArr, rightArr, yearsCount) ==
    [i \in 1..yearsCount |-> BinaryAt(op, leftArr[i], rightArr[i])]

\* one iteration of the loop over the RPN tokens
ApplyToken(stk, token, regs, yearsCount) ==
    IF token.type = "op" THEN
        IF token.op = "u-" THEN
            IF Len(stk) < 1
            THEN [error |-> "Invalid expression: unary operator missing operand.", stack |-> stk]
            ELSE [error |-> NoError,
                  stack |-> Append(Pop(stk),
                                   ArrayValue(NegateArray(toArray(Top(stk), yearsCount))))]
        ELSE IF Len(stk) < 2
            THEN [error |-> "Invalid expression: binary operator missing operands.", stack |-> stk]
            ELSE [error |-> NoError,
                  stack |-> Append(Pop(Pop(stk)),
                                   ArrayValue(BinaryArray(token.op,
                                                          toArray(Top(Pop(stk)), yearsCount),
                                                          toArray(Top(stk), yearsCount),
                                                          yearsCount)))]
    ELSE IF token.type = "region" THEN
        IF token.index < 0 \/ token.index >= Len(regs)
        THEN [error |-> "Expression references series #N which is undefined.", stack |-> stk]
        ELSE [error |-> NoError, stack |-> Append(stk, ArrayValue(regs[token.index + 1].values))]
    ELSE [error |-> NoError, stack |-> Append(stk, ScalarValue(token.value))]

\* a variant that returns the top of the stack whatever lies below it
FinishEvaluation_TakesTop(stk, yearsCount) ==
    IF Len(stk) = 0
    THEN [error |-> "Invalid expression: leftover values after evaluation.", values |-> <<>>]
    ELSE [error |-> NoError, values |-> toArray(Top(stk), yearsCount)]

\* the check after the loop and the returned array
FinishEvaluation(stk, yearsCount) ==
    IF Len(stk) # 1
    THEN [error |-> "Invalid expression: leftover values after evaluation.", values |-> <<>>]
    ELSE [error |-> NoError, values |-> toArray(stk[1], yearsCount)]

RECURSIVE EvaluateFrom(_, _, _, _, _)

\* the rest of the loop after iteration i left r
EvaluateNext(rpnTokens, i, r, regs, yearsCount) ==
    IF r.error # NoError THEN [error |-> r.error, values |-> <<>>]
    ELSE EvaluateFrom(rpnTokens, i + 1, r.stack, regs, yearsCount)

\* the loop over the RPN tokens, from token i on, and the final test
EvaluateFrom(rpnTokens, i, stk, regs, yearsCount) ==
    IF i > Len(rpnTokens) THEN FinishEvaluation(stk, yearsCount)
    ELSE EvaluateNext(rpnTokens, i, ApplyToken(stk, rpnTokens[i], regs, yearsCount),
                      regs, yearsCount)

\* evaluateExpression once the tokens are parsed (r)
EvaluateRpn(r, regs, yearsCount) ==
    IF r.error # NoError THEN [error |-> r.error, values |-> <<>>]
    ELSE EvaluateFrom(r.output, 1, <<>>, regs, yearsCount)

\* evaluateExpression once the text is tokenized (t)
EvaluateTokens(t, regs, yearsCount) ==
    IF t.error # NoError THEN [error |-> t.error, values |-> <<>>]
    ELSE EvaluateRpn(shuntingYard(t.tokens, Len(regs)), regs, yearsCount)

evaluateExpression(expression, regs, yearsCount) ==
    EvaluateTokens(tokenize(expression), regs, yearsCount)

(***************************************************************************)
(* The datasets handed to LineGraph(dfs), as _convert_df leaves them:      *)
(* years are labels, every region has one optional value per year.         *)
(***************************************************************************)
Y(a, b, c, d) == <<a, b, c, d>>

Dataset(years, names, values) == [years |-> years, names |-> names, values |-> values]

DatasetKeys == <<"gdp", "hist", "fiscal">>

Datasets ==
    [gdp |-> Dataset(<<Y("2","0","1","8"), Y("2","0","1","9"), Y("2","0","2","0")>>,
                     <<"India", "World", "China">>,
                     [India |-> <<Num(90), Num(100), Num(110)>>,
                      World |-> <<Num(180), Num(200), Num(220)>>,
                      China |-> <<Num(0), Null, Num(55)>>]),
     hist |-> Dataset(<<Y("1","9","6","4"), Y("1","9","6","6"), Y("1","9","7","7")>>,
                      <<"X", "India">>,
                      [X |-> <<Num(5), Null, Num(-2)>>,
                       India |-> <<Num(10), Num(3), Num(0)>>]),
     fiscal |-> Dataset(<<Y("F","Y","1","8"), Y("F","Y","1","9"), Y("F","Y","2","0")>>,
                        <<"World">>,
                        [World |-> <<Num(1), Null, Num(4)>>])]

getDataset(key) == Datasets[key]

\* Object.keys(dataset.regions)
Available(dataset) == dataset.names
Elems(seq) == {seq[i] : i \in 1..Len(seq)}

(***************************************************************************)
(* Authoring: LineGraph._determine_defaults                                *)
(***************************************************************************)
NoExprs == <<>>     \* default_exp was never called

\* the loop over the default expressions that builds series_names
RECURSIVE CollectAll(_, _, _)
CollectAll(exprs, i, order) ==
    IF i > Len(exprs) THEN order
    ELSE CollectAll(exprs, i + 1, CollectInto(exprs[i], order))

\* a variant that returns the series names in the reverse of the order the
\* placeholders were numbered in
DefaultsFor_ReversedOrder(default_key, default_exprs, names, regions) ==
    IF names = <<>> THEN
        [error |-> "default_exp expressions must reference at least one series.",
         dataset |-> default_key, seriesNames |-> <<>>, expressions |-> <<>>]
    ELSE IF \E i \in 1..Len(names) : ~Contains(regions, names[i]) THEN
        [error |-> "Series referenced in default expression not found in default dataset",
         dataset |-> default_key, seriesNames |-> <<>>, expressions |-> <<>>]
    ELSE
        [error |-> NoError, dataset |-> default_key,
         seriesNames |-> [i \in 1..Len(names) |-> names[Len(names) + 1 - i]],
         expressions |-> [i \in 1..Len(default_exprs) |->
                             to_placeholder_expression(default_exprs[i], names)]]

\* _determine_defaults once series_names is collected (names)
DefaultsFor(default_key, default_exprs, names, regions) ==
    IF names = <<>> THEN
        [error |-> "default_exp expressions must reference at least one series.",
         dataset |-> default_key, seriesNames |-> <<>>, expressions |-> <<>>]
    ELSE IF \E i \in 1..Len(names) : ~Contains(regions, names[i]) THEN
        [error |-> "Series referenced in default expression not found in default dataset",
         dataset |-> default_key, seriesNames |-> <<>>, expressions |-> <<>>]
    ELSE
        [error |-> NoError, dataset |-> default_key, seriesNames |-> names,
         expressions |-> [i \in 1..Len(default_exprs) |->
                             to_placeholder_expression(default_exprs[i], names)]]

_determine_defaults(default_key, default_exprs) ==
    IF default_exprs = NoExprs THEN
        [error |-> NoError, dataset |-> default_key,
         seriesNames |-> <<Datasets[default_key].names[1]>>, expressions |-> << <<"1">> >>]
    ELSE DefaultsFor(default_key, default_exprs, CollectAll(default_exprs, 1, <<>>),
                     Datasets[default_key].names)

\* const regionSeries = state.regionNames.map(...) of updateChart
RegionSeriesOf(dataset, regionNames) ==
    [i \in 1..Len(regionNames) |->
        [index |-> i - 1, name |-> regionNames[i], values |-> dataset.values[regionNames[i]]]]

(***************************************************************************)
(* Specification SpecExpr: a default expression is built, serialised by    *)
(* _determine_defaults and evaluated by the runtime on the payload.        *)
(***************************************************************************)
LeafNames == {"India", "World", "China"}
LiteralValues == {Num(1), Num(5), <<1, 2>>}

Leaves == {series(n) : n \in LeafNames} \cup {Literal(v) : v \in LiteralValues}

\* the trees with exactly n nodes that the composition operators build,
\* bySize[k] being the trees with k nodes, k < n
TreesOfSize(n, bySize) ==
    {UnaryOp("neg", t) : t \in bySize[n - 1]}
        \cup UNION {{BinaryOp(k, l, r) : k \in BinaryKinds, l \in bySize[i],
                                         r \in bySize[n - 1 - i]} : i \in 1..(n - 2)}

RECURSIVE TreesBySize(_, _)
TreesBySize(n, bySize) ==
    IF Len(bySize) >= n THEN bySize
    ELSE TreesBySize(n, Append(bySize, TreesOfSize(Len(bySize) + 1, bySize)))

\* the trees of at most n nodes
Trees(n) == UNION Elems(TreesBySize(n, <<Leaves>>))

Idle == [datasetKey |-> "", regionNames |-> <<>>, expressions |-> <<>>]
NoChart == [drawn |-> FALSE, x |-> <<>>, traces |-> <<>>, rectangles |-> <<>>, boundaryLines |-> <<>>]
NoDom == [regionSlots |-> 0, optionsOf |-> "", expressionSlots |-> 0]
NoResult == [error |-> NoError, values |-> <<>>]
NoStep == [kind |-> "none"]

\* the handler kind ran and called updateChart recomputes times; input is the
\* state it handed to updateChart, or the state it returned in without a
\* recompute
Event(kind, recomputes, input) ==
    [kind |-> kind, recomputed |-> recomputes > 0, recomputes |-> recomputes, input |-> input]
NoEvent == Event("none", 0, Idle)

EvalIdle ==
    /\ exprText = <<>> /\ regionSeries = <<>> /\ tokens = <<>> /\ rpn = <<>>
    /\ pos = 0 /\ stack = <<>> /\ lastStep = NoStep

CtrlIdle ==
    /\ state = Idle /\ statusMessage = "" /\ chart = NoChart
    /\ administrations = <<>> /\ dom = NoDom /\ lastEvent = NoEvent

\* the output path: no file, or the file of an earlier run
NoFile == [exists |-> FALSE, content |-> <<>>]
OldFile == [exists |-> TRUE, content |-> <<[kind |-> "old"]>>]

\* no show() is under way
ShowIdle == item = <<>> /\ file = NoFile

\* no dataframe is being converted
ConvertIdle == df = <<>> /\ converted = <<>>

\* default_df is not being called
ConfigIdle == keyArg = <<>>

\* no trace has been named
LabelIdle == traceName = <<>>

ExprIdle ==
    /\ tree = Literal(Num(1)) /\ dataKey = "" /\ seriesNames = <<>> /\ text = <<>>
    /\ result = NoResult /\ ShowIdle /\ ConvertIdle /\ ConfigIdle /\ LabelIdle

InitExpr ==
    /\ tree \in Trees(MaxNodes)
    /\ dataKey \in {"gdp", "hist"}
    /\ pc = "built"
    /\ seriesNames = <<>> /\ text = <<>> /\ result = NoResult /\ ShowIdle /\ ConvertIdle /\ ConfigIdle /\ LabelIdle
    /\ EvalIdle /\ CtrlIdle

\* LineGraph.show up to the payload: defaults are resolved or show() raises
Render ==
    /\ pc = "built"
    /\ \E d \in {_determine_defaults(dataKey, <<tree>>)} :
       IF d.error # NoError
       THEN /\ pc' = "failed"
            /\ UNCHANGED <<seriesNames, text>>
       ELSE /\ pc' = "rendered"
            /\ seriesNames' = d.seriesNames
            /\ text' = d.expressions[1]
    /\ UNCHANGED <<tree, dataKey, result, item, file, df, converted, keyArg, traceName, evalVars, ctrlVars>>

\* the first updateChart of the document evaluates the default expression
Evaluate ==
    /\ pc = "rendered"
    /\ LET dataset == getDataset(dataKey) IN
       result' = evaluateExpression(text, RegionSeriesOf(dataset, seriesNames),
                                    Len(dataset.years))
    /\ pc' = "done"
    /\ UNCHANGED <<tree, dataKey, seriesNames, text, item, file, df, converted, keyArg, traceName, evalVars, ctrlVars>>

NextExpr == Render \/ Evaluate

SpecExpr == InitExpr /\ [][NextExpr]_vars

(***************************************************************************)
(* Direct evaluation of a tree over the data: the reference the            *)
(* serialised text is compared with.                                       *)
(***************************************************************************)
KindOp == [add |-> "+", sub |-> "-", mul |-> "*", div |-> "/"]

RECURSIVE TreeValue(_, _, _)
TreeValue(t, dataset, i) ==
    IF t.kind = "series" THEN dataset.values[t.name][i]
    ELSE IF t.kind = "literal" THEN t.value
    ELSE IF t.kind = "neg" THEN NegateAt(TreeValue(t.operand, dataset, i))
    ELSE BinaryAt(KindOp[t.kind], TreeValue(t.left, dataset, i), TreeValue(t.right, dataset, i))

TreeValues(t, dataset) == [i \in 1..Len(dataset.years) |-> TreeValue(t, dataset, i)]

(***************************************************************************)
(* Claims on the serialisation round trip                                  *)
(***************************************************************************)
\* C1: once the runtime has evaluated the serialised default expression,
\* its values equal, at every year index, the direct evaluation of the tree
\* on the same dataset, and evaluation raised no error.
C1_RoundTrip ==
    pc = "done" =>
        /\ result.error = NoError
        /\ result.values = TreeValues(tree, getDataset(dataKey))

SubLeft == BinaryOp("sub", BinaryOp("sub", series("India"), series("World")), series("China"))
SubRight == BinaryOp("sub", series("India"), BinaryOp("sub", series("World"), series("China")))

\* C2: the text serialised for a - (b - c) differs from the text of
\* (a - b) - c over the same series order.
C2_SubtractionTextsDiffer ==
    (pc \in {"rendered", "done"} /\ tree = SubRight) =>
        text # to_placeholder_expression(SubLeft, seriesNames)

\* C3: for a tree  series(x) op k  with a numeric literal k, the runtime
\* result is x op k at every year index, k taken as a constant.
C3_LiteralIsConstant ==
    (/\ pc = "done"
     /\ IsBinary(tree)
     /\ tree.left.kind = "series"
     /\ tree.right.kind = "literal") =>
        /\ result.error = NoError
        /\ result.values =
              [i \in 1..Len(getDataset(dataKey).years) |->
                  BinaryAt(KindOp[tree.kind],
                           getDataset(dataKey).values[tree.left.name][i],
                           tree.right.value)]

(***************************************************************************)
(* Specification SpecEval: evaluateExpression on a typed expression text   *)
(* and a selection of series, one iteration of its loop per step.          *)
(***************************************************************************)

ExprTexts ==
    { <<"1">>, <<"2">>, <<"-", "1">>, <<"0", ".", "5">>,
      <<"1", " ", "+", " ", "2">>, <<"1", "-", "2">>, <<"1", "*", "2">>, <<"1", " ", "/", " ", "2">>,
      <<"1", "/", "0">>, <<"2", "*", "0", ".", "5">>,
      <<"(", "1", "/", "2", ")", "+", "1">>, <<"1", "*", "(", "2", "-", "2", ")">>,
      <<"1", "/", "(", "2", "-", "2", ")">>, <<"-", "(", "1", "/", "2", ")">>,
      <<"1", " ", "+">>, <<"(", "1">>, <<"1", ")">>, <<"1", " ", "2">>, <<"*">>, <<"-">>,
      <<"1", ".", "2", ".", "3">>, <<"x">>, <<" ">>, <<>>,
      <<"1", ".", "0">>, <<"3">>, <<"0", "2">> }

\* the ordered selections of one or two series of a dataset
Selections(dataset) ==
    {<<n>> : n \in Elems(dataset.names)}
        \cup {<<n, m>> : n \in Elems(dataset.names), m \in Elems(dataset.names)}

InitEval ==
    /\ exprText \in ExprTexts
    /\ \E key \in Elems(DatasetKeys) : \E sel \in Selections(Datasets[key]) :
          regionSeries = RegionSeriesOf(Datasets[key], sel)
    /\ tokens = <<>> /\ rpn = <<>> /\ pos = 0 /\ stack = <<>> /\ lastStep = NoStep
    /\ pc = "start"
    /\ ExprIdle /\ CtrlIdle

YearsOf(regs) == Len(regs[1].values)

Fail(message) ==
    /\ pc' = "failed"
    /\ result' = [error |-> message, values |-> <<>>]

\* const tokens = tokenize(expression)
TokenizeStep ==
    /\ pc = "start"
    /\ \E t \in {tokenize(exprText)} :
       IF t.error # NoError
       THEN Fail(t.error) /\ UNCHANGED tokens
       ELSE pc' = "tokens" /\ tokens' = t.tokens /\ UNCHANGED result
    /\ UNCHANGED <<item, file, df, converted, keyArg, traceName, tree, dataKey, seriesNames, text, exprText, regionSeries, rpn, pos, stack,
                   lastStep, ctrlVars>>

\* const rpn = shuntingYard(tokens, regionSeries.length)
ParseStep ==
    /\ pc = "tokens"
    /\ \E r \in {shuntingYard(tokens, Len(regionSeries))} :
       IF r.error # NoError
       THEN Fail(r.error) /\ UNCHANGED <<rpn, pos>>
       ELSE pc' = "eval" /\ rpn' = r.output /\ pos' = 1 /\ UNCHANGED result
    /\ UNCHANGED <<item, file, df, converted, keyArg, traceName, tree, dataKey, seriesNames, text, exprText, regionSeries, tokens, stack,
                   lastStep, ctrlVars>>

\* what an iteration did, for the properties of single iterations
StepRecord(token, stk, r) ==
    IF token.type = "op" /\ token.op # "u-" /\ Len(stk) >= 2 THEN
        [kind |-> "binary", op |-> token.op,
         left |-> toArray(Top(Pop(stk)), YearsOf(regionSeries)),
         right |-> toArray(Top(stk), YearsOf(regionSeries)),
         result |-> Top(r.stack).values, error |-> r.error]
    ELSE IF token.type = "op" /\ token.op = "u-" /\ Len(stk) >= 1 THEN
        [kind |-> "unary", operand |-> toArray(Top(stk), YearsOf(regionSeries)),
         result |-> Top(r.stack).values, error |-> r.error]
    ELSE [kind |-> token.type, error |-> r.error]

\* one iteration of  for (const token of rpn)
EvalStep ==
    /\ pc = "eval"
    /\ pos <= Len(rpn)
    /\ \E r \in {ApplyToken(stack, rpn[pos], regionSeries, YearsOf(regionSeries))} :
       /\ lastStep' = StepRecord(rpn[pos], stack, r)
       /\ IF r.error # NoError
          THEN Fail(r.error) /\ UNCHANGED <<stack, pos>>
          ELSE stack' = r.stack /\ pos' = pos + 1 /\ UNCHANGED <<pc, result>>
    /\ UNCHANGED <<item, file, df, converted, keyArg, traceName, tree, dataKey, seriesNames, text, exprText, regionSeries, tokens, rpn, ctrlVars>>

\* the test of the stack after the loop, and the return
FinishStep ==
    /\ pc = "eval"
    /\ pos > Len(rpn)
    /\ \E r \in {FinishEvaluation(stack, YearsOf(regionSeries))} :
       /\ result' = r
       /\ pc' = IF r.error # NoError THEN "failed" ELSE "done"
    /\ UNCHANGED <<item, file, df, converted, keyArg, traceName, tree, dataKey, seriesNames, text, exprText, regionSeries, tokens, rpn, pos,
                   stack, lastStep, ctrlVars>>

NextEval == TokenizeStep \/ ParseStep \/ EvalStep \/ FinishStep

SpecEval == InitEval /\ [][NextEval]_vars

(***************************************************************************)
(* Claims on single iterations of the evaluator                            *)
(***************************************************************************)
Indices(arr) == 1..Len(arr)

\* C7: a binary operator applied to two operand arrays gives null at every
\* index where the left or the right operand is null, and raises no error.
C7_NullPropagation ==
    lastStep.kind = "binary" =>
        /\ lastStep.error = NoError
        /\ \A i \in Indices(lastStep.result) :
              (IsNull(lastStep.left[i]) \/ IsNull(lastStep.right[i]))
                  => IsNull(lastStep.result[i])

\* C7 witness: a multiplication whose left operand is null at an index where
\* the right operand is a number, and an addition whose right operand is null
C7_Witness ==
    /\ lastStep.kind = "binary"
    /\ lastStep.op \in {"+", "*"}
    /\ \E i \in Indices(lastStep.result) :
          /\ IsNull(lastStep.right[i]) /\ ~IsNull(lastStep.left[i])
          /\ IsNull(lastStep.result[i])

\* C8: a division gives null exactly where the divisor is 0 or an operand is
\* null, raises no error, and elsewhere gives the quotient q, q * r = l.
C8_DivisionByZero ==
    (lastStep.kind = "binary" /\ lastStep.op = "/") =>
        /\ lastStep.error = NoError
        /\ \A i \in Indices(lastStep.result) :
              LET l == lastStep.left[i]
                  r == lastStep.right[i]
                  q == lastStep.result[i]
              IN  /\ IsNull(q) <=> (IsNull(l) \/ IsNull(r) \/ r = Num(0))
                  /\ ~IsNull(q) => (~IsNaN(q) /\ RMul(q, r) = l)

\* C8 witness: a division with a zero divisor at one index and a proper
\* quotient at another
C8_Witness ==
    /\ lastStep.kind = "binary" /\ lastStep.op = "/"
    /\ \E i, j \in Indices(lastStep.result) :
          /\ lastStep.right[i] = Num(0) /\ ~IsNull(lastStep.left[i]) /\ IsNull(lastStep.result[i])
          /\ ~IsNull(lastStep.result[j]) /\ lastStep.result[j] # lastStep.left[j]

(***************************************************************************)
(* Line-graph controller: state, redraw and event handlers                 *)
(***************************************************************************)
Min(a, b) == IF a < b THEN a ELSE b
RLt(x, y) == x[1] * y[2] < y[1] * x[2]
RMax(x, y) == IF RLt(x, y) THEN y ELSE x
RMin(x, y) == IF RLt(y, x) THEN y ELSE x

\* a variant that replaces every unknown name by the first available name
ensureRegionSelectionsAvailable_FirstName(dataset, regionNames) ==
    LET available == Available(dataset)
        mapped == [i \in 1..Len(regionNames) |->
                      IF Contains(available, regionNames[i]) THEN regionNames[i]
                      ELSE available[1]]
    IN  IF Len(mapped) = 0 THEN <<available[1]>> ELSE mapped

\* ensureRegionSelectionsAvailable, for a dataset with regions
ensureRegionSelectionsAvailable(dataset, regionNames) ==
    LET available == Available(dataset)
        mapped == [i \in 1..Len(regionNames) |->
                      IF Contains(available, regionNames[i]) THEN regionNames[i]
                      ELSE available[Min(i - 1, Len(available) - 1) + 1]]
    IN  IF Len(mapped) = 0 THEN <<available[1]>> ELSE mapped

ensureExpressionsAvailable(expressions) ==
    IF Len(expressions) = 0 THEN << <<"1">> >> ELSE expressions

\* buildRegionControls and buildExpressionControls: one slot per entry
buildRegionControls(d, st) ==
    [d EXCEPT !.regionSlots = Len(st.regionNames), !.optionsOf = st.datasetKey]
buildExpressionControls(d, st) ==
    [d EXCEPT !.expressionSlots = Len(ensureExpressionsAvailable(st.expressions))]

\* String.prototype.trim
RECURSIVE TrimLeft(_)
TrimLeft(s) == IF s # <<>> /\ IsSpace(Head(s)) THEN TrimLeft(Tail(s)) ELSE s
RECURSIVE TrimRight(_)
TrimRight(s) == IF s # <<>> /\ IsSpace(s[Len(s)]) THEN TrimRight(Pop(s)) ELSE s
Trim(s) == TrimRight(TrimLeft(s))

\* Number(label) of a year label
LabelNumber(label) ==
    IF \A i \in 1..Len(label) : IsNumberChar(label[i]) THEN ToNumber(label) ELSE NaN

\* value != null && Number.isFinite(value)
IsFinite(v) == ~IsNull(v) /\ ~IsNaN(v)

First(S) == CHOOSE i \in S : \A j \in S : i <= j
Last(S) == CHOOSE i \in S : \A j \in S : j <= i

\* addBoundary: seenBoundaries is the set of the keys of the lines
addBoundary(lines, value, key) ==
    IF \E i \in 1..Len(lines) : lines[i].key = key THEN lines
    ELSE Append(lines, [value |-> value, key |-> key])

\* the boundary of one end of an administration: kind is "start" or "end",
\* label the year of that end and numeric its number
Boundary(lines, kind, label, numeric, useNumericYears, xRangeMin, xRangeMax) ==
    IF useNumericYears THEN
        IF ~IsNaN(numeric) /\ ~RLt(numeric, xRangeMin) /\ ~RLt(xRangeMax, numeric)
        THEN addBoundary(lines, numeric, <<kind, numeric>>)
        ELSE lines
    ELSE addBoundary(lines, label, <<kind, label>>)

\* administrations.forEach(...) of the boundary lines
RECURSIVE BoundaryLines(_, _, _, _, _, _)
BoundaryLines(admins, i, lines, useNumericYears, xRangeMin, xRangeMax) ==
    IF i > Len(admins) THEN lines
    ELSE BoundaryLines(admins, i + 1,
             Boundary(Boundary(lines, "start", admins[i].start, LabelNumber(admins[i].start),
                               useNumericYears, xRangeMin, xRangeMax),
                      "end", admins[i].end, LabelNumber(admins[i].end),
                      useNumericYears, xRangeMin, xRangeMax),
             useNumericYears, xRangeMin, xRangeMax)

\* the band of administration i, appended unless it is filtered out
Rectangle(rects, i, admin, startNumeric, endNumeric, useNumericYears, xRangeMin, xRangeMax) ==
    IF useNumericYears THEN
        IF IsNaN(startNumeric) \/ IsNaN(endNumeric) THEN rects
        ELSE IF RLt(xRangeMax, startNumeric) \/ RLt(endNumeric, xRangeMin) THEN rects
        ELSE Append(rects, [admin |-> i,
                            x0 |-> RMax(startNumeric, xRangeMin),
                            x1 |-> RMin(endNumeric, xRangeMax)])
    ELSE Append(rects, [admin |-> i, x0 |-> admin.start, x1 |-> admin.end])

\* administrations.map(...).filter(Boolean) of the shaded bands
RECURSIVE Rectangles(_, _, _, _, _, _)
Rectangles(admins, i, rects, useNumericYears, xRangeMin, xRangeMax) ==
    IF i > Len(admins) THEN rects
    ELSE Rectangles(admins, i + 1,
             Rectangle(rects, i, admins[i], LabelNumber(admins[i].start),
                       LabelNumber(admins[i].end), useNumericYears, xRangeMin, xRangeMax),
             useNumericYears, xRangeMin, xRangeMax)

Purged == NoChart

NumericYears(years) == [i \in 1..Len(years) |-> LabelNumber(years[i])]
UseNumericYears(numericYears) == \A i \in 1..Len(numericYears) : ~IsNaN(numericYears[i])

\* Plotly.react: the traces cut to years lo..hi and the shapes of the overlay
Plot(years, numericYears, trimmedExpressions, values, admins, lo, hi) ==
    [drawn |-> TRUE,
     x |-> SubSeq(years, lo, hi),
     traces |-> [i \in 1..Len(values) |->
                    [expression |-> trimmedExpressions[i],
                     y |-> SubSeq(values[i].values, lo, hi)]],
     rectangles |-> Rectangles(admins, 1, <<>>, UseNumericYears(numericYears),
                               numericYears[lo], numericYears[hi]),
     boundaryLines |-> BoundaryLines(admins, 1, <<>>, UseNumericYears(numericYears),
                                     numericYears[lo], numericYears[hi])]

\* sliceStartIndex and sliceEndIndex of the availability mask
SliceStartIndex(mask, length) == IF mask = {} THEN 1 ELSE First(mask)
SliceEndIndex(mask, length) == IF mask = {} THEN length ELSE Last(mask)

\* the years at which some trace has a finite value
AvailabilityMask(values, length) ==
    {k \in 1..length : \E i \in 1..Len(values) : IsFinite(values[i].values[k])}

PlotMasked(years, trimmedExpressions, values, admins, mask) ==
    Plot(years, NumericYears(years), trimmedExpressions, values, admins,
         SliceStartIndex(mask, Len(years)), SliceEndIndex(mask, Len(years)))

\* a variant that reports the first error and draws the expressions that evaluated
DrawValues_PartialDraw(years, trimmedExpressions, values, admins) ==
    LET ok == {i \in 1..Len(values) : values[i].error = NoError}
        bad == {i \in 1..Len(values) : values[i].error # NoError}
        RECURSIVE Keep(_, _)
        Keep(seq, i) == IF i > Len(seq) THEN <<>>
                        ELSE (IF i \in ok THEN <<seq[i]>> ELSE <<>>) \o Keep(seq, i + 1)
    IN  IF ok = {} THEN [error |-> values[First(bad)].error, chart |-> Purged]
        ELSE [error |-> IF bad = {} THEN NoError ELSE values[First(bad)].error,
              chart |-> PlotMasked(years, Keep(trimmedExpressions, 1), Keep(values, 1), admins,
                                   AvailabilityMask(Keep(values, 1), Len(years)))]

\* the traces of the evaluated expressions, or the error of the first that failed
DrawValues(years, trimmedExpressions, values, admins) ==
    IF \E i \in 1..Len(values) : values[i].error # NoError THEN
        [error |-> values[First({i \in 1..Len(values) : values[i].error # NoError})].error,
         chart |-> Purged]
    ELSE [error |-> NoError,
          chart |-> PlotMasked(years, trimmedExpressions, values, admins,
                               AvailabilityMask(values, Len(years)))]

DrawTrimmed(dataset, regionNames, trimmedExpressions, admins) ==
    IF \E i \in 1..Len(trimmedExpressions) : Len(trimmedExpressions[i]) = 0 THEN
        [error |-> "Expressions cannot be empty.", chart |-> Purged]
    ELSE DrawValues(dataset.years, trimmedExpressions,
                    [i \in 1..Len(trimmedExpressions) |->
                        evaluateExpression(trimmedExpressions[i],
                                           RegionSeriesOf(dataset, regionNames),
                                           Len(dataset.years))],
                    admins)

\* the body of the try block of updateChart after the controls are rebuilt:
\* the chart Plotly.react draws, or the message of the error thrown
Redraw(st, admins) ==
    DrawTrimmed(getDataset(st.datasetKey), st.regionNames,
                [i \in 1..Len(st.expressions) |-> Trim(st.expressions[i])], admins)

\* what updateChart leaves: try { ... } catch (error) { ... }
Outcome(st1, d, r) ==
    [state |-> st1, dom |-> buildRegionControls(d, st1),
     statusMessage |-> r.error, chart |-> r.chart]

\* updateChart on the administrations admins of the dataset
updateChart(st, d, admins) ==
    Outcome([st EXCEPT
                !.regionNames = ensureRegionSelectionsAvailable(getDataset(st.datasetKey), @),
                !.expressions = ensureExpressionsAvailable(@)],
            d,
            Redraw([st EXCEPT
                       !.regionNames = ensureRegionSelectionsAvailable(getDataset(st.datasetKey), @),
                       !.expressions = ensureExpressionsAvailable(@)],
                   admins))

AdminsOf(payload, key) == IF key \in DOMAIN payload THEN payload[key] ELSE <<>>

SetAll(u) ==
    /\ state' = u.state
    /\ dom' = u.dom
    /\ statusMessage' = u.statusMessage
    /\ chart' = u.chart

RemoveAt(seq, i) == SubSeq(seq, 1, i - 1) \o SubSeq(seq, i + 1, Len(seq))

\* updateChart() at the end of handler kind, which left the state st1 and the controls d
Refresh(kind, st1, d) ==
    /\ \E u \in {updateChart(st1, d, AdminsOf(administrations, st1.datasetKey))} : SetAll(u)
    /\ lastEvent' = Event(kind, 1, st1)

\* handler kind returns early with a message
Refuse(kind, message) ==
    /\ statusMessage' = message
    /\ lastEvent' = Event(kind, 0, state)
    /\ UNCHANGED <<state, dom, chart>>

\* datasetSelect "change"
DatasetChange(key) ==
    /\ pc = "idle"
    /\ key # state.datasetKey
    /\ \E st1 \in {[state EXCEPT
                       !.datasetKey = key,
                       !.regionNames = ensureRegionSelectionsAvailable(getDataset(key), @)]} :
          Refresh("datasetChange", st1, buildExpressionControls(buildRegionControls(dom, st1), st1))
    /\ UNCHANGED <<pc, administrations, exprVars, evalVars>>

\* "change" of the select of series slot idx
RegionSelectChange(idx, name) ==
    /\ pc = "idle"
    /\ idx \in 1..dom.regionSlots
    /\ name \in Elems(Available(getDataset(dom.optionsOf)))
    /\ name # state.regionNames[idx]
    /\ Refresh("selectSeries", [state EXCEPT !.regionNames[idx] = name], dom)
    /\ UNCHANGED <<pc, administrations, exprVars, evalVars>>

\* a variant without the test of the length
RemoveRegionClick_NoMinimum(idx) ==
    /\ pc = "idle"
    /\ idx \in 1..dom.regionSlots
    /\ Refresh("removeSeries", [state EXCEPT !.regionNames = RemoveAt(@, idx)], dom)
    /\ UNCHANGED <<pc, administrations, exprVars, evalVars>>

\* a variant that resets every expression to "1" when a slot is removed
RemoveRegionClick_ResetsExpressions(idx) ==
    /\ pc = "idle"
    /\ idx \in 1..dom.regionSlots
    /\ IF Len(state.regionNames) <= 1
       THEN Refuse("removeSeries", "At least one series is required.")
       ELSE Refresh("removeSeries",
                    [state EXCEPT !.regionNames = RemoveAt(@, idx),
                                  !.expressions = [i \in DOMAIN @ |-> <<"1">>]], dom)
    /\ UNCHANGED <<pc, administrations, exprVars, evalVars>>

\* "click" of the remove button of series slot idx; removeRegionAt
RemoveRegionClick(idx) ==
    /\ pc = "idle"
    /\ idx \in 1..dom.regionSlots
    /\ IF Len(state.regionNames) <= 1
       THEN Refuse("removeSeries", "At least one series is required.")
       ELSE Refresh("removeSeries", [state EXCEPT !.regionNames = RemoveAt(@, idx)], dom)
    /\ UNCHANGED <<pc, administrations, exprVars, evalVars>>

\* available.find((name) => !state.regionNames.includes(name)) || available[0]
UnusedOrFirst(available, regionNames) ==
    IF \A i \in 1..Len(available) : Contains(regionNames, available[i]) THEN available[1]
    ELSE available[First({i \in 1..Len(available) : ~Contains(regionNames, available[i])})]

\* a variant of addRegionSlot that rebuilds the controls and does not redraw
AddRegionClick_NoRecompute ==
    /\ pc = "idle"
    /\ Len(state.regionNames) < MaxSlots
    /\ \E st1 \in {[state EXCEPT
                       !.regionNames = Append(@, UnusedOrFirst(
                           Available(getDataset(state.datasetKey)), state.regionNames))]} :
          /\ state' = st1
          /\ dom' = buildRegionControls(dom, st1)
          /\ lastEvent' = Event("addSeries", 0, st1)
          /\ UNCHANGED <<statusMessage, chart>>
    /\ UNCHANGED <<pc, administrations, exprVars, evalVars>>

\* "click" of addRegionButton; addRegionSlot
AddRegionClick ==
    /\ pc = "idle"
    /\ Len(state.regionNames) < MaxSlots
    /\ \E st1 \in {[state EXCEPT
                       !.regionNames = Append(@, UnusedOrFirst(
                           Available(getDataset(state.datasetKey)), state.regionNames))]} :
          Refresh("addSeries", st1, buildRegionControls(dom, st1))
    /\ UNCHANGED <<pc, administrations, exprVars, evalVars>>

\* "input" of the text field of expression slot idx
ExpressionInput(idx, txt) ==
    /\ pc = "idle"
    /\ idx \in 1..dom.expressionSlots
    /\ txt # state.expressions[idx]
    /\ Refresh("editExpression", [state EXCEPT !.expressions[idx] = txt], dom)
    /\ UNCHANGED <<pc, administrations, exprVars, evalVars>>

\* a variant without the test of the length
RemoveExpressionClick_NoMinimum(idx) ==
    /\ pc = "idle"
    /\ idx \in 1..dom.expressionSlots
    /\ \E st1 \in {[state EXCEPT !.expressions = RemoveAt(@, idx)]} :
          Refresh("removeExpression", st1, buildExpressionControls(dom, st1))
    /\ UNCHANGED <<pc, administrations, exprVars, evalVars>>

\* "click" of the remove button of expression slot idx
RemoveExpressionClick(idx) ==
    /\ pc = "idle"
    /\ idx \in 1..dom.expressionSlots
    /\ IF Len(state.expressions) <= 1
       THEN Refuse("removeExpression", "At least one expression is required.")
       ELSE \E st1 \in {[state EXCEPT !.expressions = RemoveAt(@, idx)]} :
               Refresh("removeExpression", st1, buildExpressionControls(dom, st1))
    /\ UNCHANGED <<pc, administrations, exprVars, evalVars>>

\* "click" of addExpressionButton
AddExpressionClick ==
    /\ pc = "idle"
    /\ Len(state.expressions) < MaxExprs
    /\ \E st1 \in {[state EXCEPT
                       !.expressions = Append(ensureExpressionsAvailable(@), <<"1">>)]} :
          Refresh("addExpression", st1, buildExpressionControls(dom, st1))
    /\ UNCHANGED <<pc, administrations, exprVars, evalVars>>

\* the texts typed into an expression field
CtrlTexts ==
    { <<"1">>, <<"1", " ", "/", " ", "2">>, <<" ">>, <<"x">>, <<"(", "1">>, <<"1", " ", "+">> }

\* the state init() starts from and the controls it builds before updateChart
InitialState(defaults) ==
    [datasetKey |-> defaults.dataset,
     regionNames |-> ensureRegionSelectionsAvailable(getDataset(defaults.dataset),
                                                     defaults.seriesNames),
     expressions |-> defaults.expressions]

\* the document after init(): the defaults of the payload, redrawn once
Loaded(st1, admins) ==
    updateChart(st1, buildExpressionControls(buildRegionControls(NoDom, st1), st1), admins)

\* the defaults LineGraph.show resolves: no default_exp, or India / World on gdp
DefaultChoices ==
    {_determine_defaults(DatasetKeys[k], NoExprs) : k \in 1..Len(DatasetKeys)}
        \cup {_determine_defaults("gdp", <<BinaryOp("div", series("India"), series("World"))>>)}

AdminRecord(start, end) == [start |-> IntToStr(start), end |-> IntToStr(end)]

\* the administrations of the examples: two terms that share the year 1966 on
\* hist, and one term on fiscal, whose year labels are not numbers
ExampleAdministrations ==
    [k \in {"hist", "fiscal"} |->
        IF k = "hist" THEN <<AdminRecord(1964, 1966), AdminRecord(1966, 1977)>>
        ELSE <<AdminRecord(1990, 1991)>>]

Init ==
    /\ pc = "idle"
    /\ administrations = ExampleAdministrations
    /\ \E d \in DefaultChoices :
          /\ \E u \in {Loaded(InitialState(d), AdminsOf(ExampleAdministrations, d.dataset))} :
                /\ state = u.state /\ dom = u.dom
                /\ statusMessage = u.statusMessage /\ chart = u.chart
          /\ lastEvent = Event("init", 1, InitialState(d))
    /\ ExprIdle /\ EvalIdle

Next ==
    \/ \E k \in 1..Len(DatasetKeys) : DatasetChange(DatasetKeys[k])
    \/ \E idx \in 1..MaxSlots, name \in UNION {Elems(Datasets[DatasetKeys[k]].names) : k \in 1..Len(DatasetKeys)} :
          RegionSelectChange(idx, name)
    \/ \E idx \in 1..MaxSlots : RemoveRegionClick(idx)
    \/ AddRegionClick
    \/ \E idx \in 1..MaxExprs, txt \in CtrlTexts : ExpressionInput(idx, txt)
    \/ \E idx \in 1..MaxExprs : RemoveExpressionClick(idx)
    \/ AddExpressionClick

Spec == Init /\ [][Next]_vars

(***************************************************************************)
(* The controller keeps at least one series slot and one expression slot   *)
(***************************************************************************)

\* C4: after any sequence of user events the series slot list has at least one
\* entry, and a remove-series event fired when exactly one slot remains leaves
\* datasetKey, the series slots and the expression slots unchanged and sets a
\* status message.
C4_SeriesMinimum ==
    /\ [](Len(state.regionNames) >= 1)
    /\ [][(lastEvent'.kind = "removeSeries" /\ Len(state.regionNames) = 1) =>
            /\ state'.datasetKey = state.datasetKey
            /\ state'.regionNames = state.regionNames
            /\ state'.expressions = state.expressions
            /\ statusMessage' # ""]_vars

\* the remove button of the only series slot was clicked and refused
C4_Witness ==
    /\ lastEvent.kind = "removeSeries"
    /\ ~lastEvent.recomputed
    /\ Len(state.regionNames) = 1
    /\ statusMessage = "At least one series is required."

\* C5: after any sequence of user events the expression slot list has at least
\* one entry; a remove-expression event fired when exactly one expression
\* remains leaves the whole state unchanged and sets a status message; an
\* add-expression event appends exactly one slot whose text is "1".
C5_ExpressionMinimum ==
    /\ [](Len(state.expressions) >= 1)
    /\ [][/\ (lastEvent'.kind = "removeExpression" /\ Len(state.expressions) = 1) =>
                (state' = state /\ chart' = chart /\ dom' = dom /\ statusMessage' # "")
          /\ lastEvent'.kind = "addExpression" =>
                /\ state'.expressions = Append(state.expressions, <<"1">>)
                /\ state'.datasetKey = state.datasetKey
                /\ state'.regionNames = state.regionNames]_vars

\* the remove button of the only expression was refused, with a text other
\* than the default in the slot
C5_Witness ==
    /\ lastEvent.kind = "removeExpression"
    /\ ~lastEvent.recomputed
    /\ state.expressions = << <<"1", " ", "/", " ", "2">> >>
    /\ statusMessage = "At least one expression is required."

(***************************************************************************)
(* Switching the dataset                                                   *)
(***************************************************************************)

\* C6: after a switch of the dataset every series slot holds a name of the new
\* dataset and the slot list is non-empty; a slot whose name exists in the new
\* dataset keeps it, and the slot at position i (from 0) whose name does not
\* exist gets the new dataset's name at index min(i, count - 1).
C6_DatasetSwitch ==
    [][lastEvent'.kind = "datasetChange" =>
          LET names == Datasets[state'.datasetKey].names
          IN  /\ Len(state'.regionNames) >= 1
              /\ Len(state'.regionNames) = Len(state.regionNames)
              /\ \A i \in 1..Len(state'.regionNames) :
                    /\ Contains(names, state'.regionNames[i])
                    /\ Contains(names, state.regionNames[i]) =>
                          state'.regionNames[i] = state.regionNames[i]
                    /\ ~Contains(names, state.regionNames[i]) =>
                          state'.regionNames[i] = names[Min(i - 1, Len(names) - 1) + 1]]_vars

\* the switch to hist replaced the first slot by position and kept the second
C6_Witness ==
    /\ lastEvent.kind = "datasetChange"
    /\ state.datasetKey = "hist"
    /\ state.regionNames = <<"X", "India">>

(***************************************************************************)
(* The administration overlay                                              *)
(***************************************************************************)

\* the boundary lines of the chart at the year of label
LinesAt(label) ==
    {k \in 1..Len(chart.boundaryLines) :
        chart.boundaryLines[k].value \in {label, LabelNumber(label)}}

\* C9: two administrations that share a boundary year (one ends in the year
\* the next starts, 1964-1966 and 1966-1977) produce exactly one boundary line
\* at that year, not two.
C9_SharedBoundaryOneLine ==
    chart.drawn =>
        LET admins == AdminsOf(administrations, state.datasetKey)
        IN  \A i, j \in 1..Len(admins) :
               (i # j /\ admins[i].end = admins[j].start /\ LinesAt(admins[i].end) # {}) =>
                   Cardinality(LinesAt(admins[i].end)) = 1

(***************************************************************************)
(* The recompute is all or nothing                                         *)
(***************************************************************************)

\* expression text txt is empty after trimming, or fails to tokenize, parse or
\* evaluate on the series slots of st
Fails(st, txt) ==
    \/ Trim(txt) = <<>>
    \/ evaluateExpression(Trim(txt),
                          RegionSeriesOf(getDataset(st.datasetKey), st.regionNames),
                          Len(getDataset(st.datasetKey).years)).error # NoError

\* C10: if any expression slot is empty after trimming, or fails to tokenize,
\* parse or evaluate, then no trace is drawn for any expression, the chart is
\* cleared, a non-empty status message is shown, and datasetKey, the series
\* slots and the expression texts are the same as before the recompute.
C10_AllOrNothing ==
    (/\ lastEvent.recomputed
     /\ \E i \in 1..Len(lastEvent.input.expressions) :
           Fails(lastEvent.input, lastEvent.input.expressions[i])) =>
        /\ chart.traces = <<>>
        /\ chart = Purged
        /\ statusMessage # ""
        /\ state = lastEvent.input

\* two expressions were recomputed, the first evaluates and the second fails
C10_Witness ==
    /\ lastEvent.recomputed
    /\ Len(state.expressions) = 2
    /\ ~Fails(state, state.expressions[1])
    /\ Fails(state, state.expressions[2])
    /\ chart = Purged


(***************************************************************************)
(* Scenarios of the default expression                                     *)
(***************************************************************************)
IndiaOverWorld == BinaryOp("div", series("India"), series("World"))

\* C11: for the dataset with years 2018..2020, India = [90,100,110] and
\* World = [180,200,220] and the default expression
\* series("India") / series("World"), the resolved defaults are the series
\* order ["India", "World"] and the placeholder "1 / 2", and the runtime
\* evaluates that placeholder against the two series to 0.5 at each of the
\* three indices.
C11_IndiaOverWorld ==
    (tree = IndiaOverWorld /\ dataKey = "gdp") =>
        /\ pc # "failed"
        /\ pc \in {"rendered", "done"} =>
              /\ seriesNames = <<"India", "World">>
              /\ text = <<"1", " ", "/", " ", "2">>
        /\ pc = "done" =>
              /\ result.error = NoError
              /\ result.values = <<<<1, 2>>, <<1, 2>>, <<1, 2>>>>

\* the scenario's expression was rendered and evaluated
C11_Witness ==
    /\ tree = IndiaOverWorld /\ dataKey = "gdp" /\ pc = "done"
    /\ result.values = <<<<1, 2>>, <<1, 2>>, <<1, 2>>>>


(***************************************************************************)
(* Unary minus                                                             *)
(***************************************************************************)

\* C12: evaluating -e negates the value of e at every index where it is
\* non-null and yields null at every index where it is null
\* (X = [5, null, -2] gives [-5, null, 2]); the operand's own array is not
\* modified.
C12_UnaryMinus ==
    /\ [](lastStep.kind = "unary" =>
            /\ lastStep.error = NoError
            /\ Len(lastStep.result) = Len(lastStep.operand)
            /\ \A i \in Indices(lastStep.operand) :
                  /\ IsNull(lastStep.operand[i]) => IsNull(lastStep.result[i])
                  /\ ~IsNull(lastStep.operand[i]) =>
                        /\ ~IsNull(lastStep.result[i])
                        /\ RAdd(lastStep.result[i], lastStep.operand[i]) = Num(0))
    /\ []((/\ exprText = <<"-", "1">> /\ regionSeries[1].name = "X" /\ pc = "done") =>
             result.values = <<Num(-5), Null, Num(2)>>)
    /\ [][regionSeries' = regionSeries]_vars

\* -X was evaluated on X = [5, null, -2], and X is as it was
C12_Witness ==
    /\ lastStep.kind = "unary"
    /\ lastStep.operand = <<Num(5), Null, Num(-2)>>
    /\ lastStep.result = <<Num(-5), Null, Num(2)>>
    /\ regionSeries[1].values = <<Num(5), Null, Num(-2)>>
    /\ pc = "done"


(***************************************************************************)
(* The parser: number tokens                                               *)
(***************************************************************************)
IsNumberToken(token) == IsNumberChar(token[1])
IsOperand(token) == token.type # "op"

\* the number tokens of the text and the operands of the RPN, both in order
NumberTokens == SelectSeq(tokens, IsNumberToken)
Operands == SelectSeq(rpn, IsOperand)

\* C13: with N selected series, a numeric token is a series reference exactly
\* when it contains no decimal point and its value is an integer in [1, N];
\* every other numeric token (0, an integer above N, any token with a decimal
\* point) is a numeric literal.
C13_NumberTokens ==
    pc \in {"eval", "done"} =>
        /\ Len(Operands) = Len(NumberTokens)
        /\ \A k \in 1..Len(Operands) :
              LET token == NumberTokens[k]
                  value == ToNumber(token)
                  isRef == /\ \A j \in 1..Len(token) : token[j] # "."
                           /\ value[2] = 1
                           /\ value[1] >= 1 /\ value[1] <= Len(regionSeries)
              IN  /\ isRef <=> Operands[k].type = "region"
                  /\ isRef => Operands[k].index = value[1] - 1
                  /\ ~isRef => (Operands[k].type = "literal" /\ Operands[k].value = value)

\* 1.0 was parsed as the literal 1 although a series 1 is selected
C13_Witness ==
    /\ pc = "done"
    /\ tokens = << <<"1", ".", "0">> >>
    /\ rpn = <<LiteralToken(Num(1))>>
    /\ Len(regionSeries) >= 1


(***************************************************************************)
(* Specification SpecParse: evaluateExpression on every text of at most    *)
(* MaxChars characters over parentheses, a digit, the minus sign and the   *)
(* decimal point, with the series X selected.                              *)
(***************************************************************************)
ParseChars == {"(", ")", "1", "-", "."}

TextsUpTo(n) == UNION {[1..k -> ParseChars] : k \in 0..n}

InitParse ==
    /\ exprText \in TextsUpTo(MaxChars)
    /\ regionSeries = RegionSeriesOf(Datasets["hist"], <<"X">>)
    /\ tokens = <<>> /\ rpn = <<>> /\ pos = 0 /\ stack = <<>> /\ lastStep = NoStep
    /\ pc = "start"
    /\ ExprIdle /\ CtrlIdle

SpecParse == InitParse /\ [][NextEval]_vars

\* the number of "(" still open after the tokens from i on, starting from
\* depth open; -1 once a ")" has met no open "("
RECURSIVE Depth(_, _, _)
Depth(toks, i, open) ==
    IF i > Len(toks) THEN open
    ELSE IF toks[i] = <<"(">> THEN Depth(toks, i + 1, open + 1)
    ELSE IF toks[i] = <<")">> THEN (IF open = 0 THEN -1 ELSE Depth(toks, i + 1, open - 1))
    ELSE Depth(toks, i + 1, open)

\* every ")" has an earlier unclosed "(" and every "(" is closed
Balanced(toks) == Depth(toks, 1, 0) = 0

MismatchedParentheses == "Mismatched parentheses in expression."

\* shuntingYard has run on the tokens
Parsed == pc \in {"eval", "done"} \/ (pc = "failed" /\ result.error # "Unexpected character in expression.")

\* C14 as stated: parsing fails with MismatchedParentheses for every token
\* sequence in which some ")" has no earlier unclosed "(" or some "(" is never
\* closed, and never fails with that error for a sequence whose parentheses
\* are balanced.
C14_MismatchedIffUnbalanced ==
    Parsed => (~Balanced(tokens) <=> (pc = "failed" /\ result.error = MismatchedParentheses))

\* C14 amended: a sequence with unbalanced parentheses always fails to parse,
\* with MismatchedParentheses or InvalidNumber, and with MismatchedParentheses
\* when every number token is a valid number; a sequence with balanced
\* parentheses never fails with MismatchedParentheses.
C14_MismatchedUnlessInvalidNumber ==
    Parsed =>
        /\ Balanced(tokens) => result.error # MismatchedParentheses
        /\ ~Balanced(tokens) =>
              /\ pc = "failed"
              /\ rpn = <<>>
              /\ result.error \in {MismatchedParentheses, "Invalid number token."}
              /\ (\A k \in 1..Len(NumberTokens) : ~IsNaN(ToNumber(NumberTokens[k]))) =>
                    result.error = MismatchedParentheses

\* a "(" that is never closed, after a complete operand, was rejected at the
\* final drain
C14_Witness ==
    /\ tokens = << <<"1">>, <<"-">>, <<"(">>, <<"1">> >>
    /\ pc = "failed"
    /\ result.error = MismatchedParentheses


(***************************************************************************)
(* The evaluation of the RPN                                               *)
(***************************************************************************)
\* the loop over the RPN is under way or has ended
Evaluating == pos >= 1

\* the token the loop is at is the operator op
AtOperator(ops) ==
    /\ pos <= Len(rpn)
    /\ rpn[pos].type = "op"
    /\ rpn[pos].op \in ops

\* C15: the evaluation returns a result only when exactly one value remains
\* on the value stack after the last token; it fails when a unary operator
\* finds an empty stack, when a binary operator finds fewer than two values,
\* and when zero or more than one value is left at the end.
C15_StackDiscipline ==
    /\ []((pc = "done") =>
            /\ pos > Len(rpn)
            /\ Len(stack) = 1
            /\ result.error = NoError
            /\ result.values = toArray(stack[1], YearsOf(regionSeries)))
    /\ [][(pc = "eval") =>
            /\ (AtOperator({"u-"}) /\ Len(stack) = 0) =>
                  (pc' = "failed" /\ result'.error =
                      "Invalid expression: unary operator missing operand.")
            /\ (AtOperator({"+", "-", "*", "/"}) /\ Len(stack) < 2) =>
                  (pc' = "failed" /\ result'.error =
                      "Invalid expression: binary operator missing operands.")
            /\ (pos > Len(rpn) /\ Len(stack) # 1) =>
                  (pc' = "failed" /\ result'.error =
                      "Invalid expression: leftover values after evaluation.")
            /\ (pos > Len(rpn) /\ Len(stack) = 1) => pc' = "done"
            /\ pc' = "done" => (pos > Len(rpn) /\ Len(stack) = 1)]_vars

\* two values were left on the stack after the last token
C15_Witness ==
    /\ pc = "failed"
    /\ Evaluating
    /\ pos > Len(rpn)
    /\ Len(stack) = 2
    /\ result.error = "Invalid expression: leftover values after evaluation."


(***************************************************************************)
(* One recompute per event                                                 *)
(***************************************************************************)
StateChangingKinds ==
    {"datasetChange", "selectSeries", "addSeries", "editExpression", "addExpression"}

\* C16: every user event that changes the state (dataset switch, series
\* selection, accepted add or remove of a series slot, expression edit,
\* accepted add or remove of an expression slot) runs exactly one recompute
\* inside its handler; recomputes never nest or overlap, and after each
\* handler the controller is idle showing either the redrawn chart or an
\* error message.
C16_OneRecomputePerEvent ==
    /\ [](/\ pc = "idle"
          /\ lastEvent.recomputes \in {0, 1}
          /\ lastEvent.recomputes = 1 =>
                \/ (chart.drawn /\ statusMessage = "")
                \/ (chart = Purged /\ statusMessage # ""))
    /\ [][(\/ state' # state
           \/ lastEvent'.kind \in StateChangingKinds
           \/ (lastEvent'.kind = "removeSeries" /\ Len(state.regionNames) > 1)
           \/ (lastEvent'.kind = "removeExpression" /\ Len(state.expressions) > 1)) =>
              (lastEvent'.recomputes = 1 /\ lastEvent'.input = state')]_vars

\* an edit of an expression was recomputed once and ended in an error message
C16_Witness ==
    /\ lastEvent.kind = "editExpression"
    /\ lastEvent.recomputes = 1
    /\ chart = Purged
    /\ statusMessage = "Mismatched parentheses in expression."


(***************************************************************************)
(* The scatter plot: the script of karana/_scatter_plot.py.                *)
(* state, statusMessage and chart are those of the scatter document.       *)
(***************************************************************************)
AUTO_VALUE == "auto"
NoIndex == -1       \* yearIndex: null

\* the datasets handed to ScatterPlot(dfs): pop and income share two years,
\* census shares none with them
ScatterKeys == <<"pop", "income", "census">>

ScatterDatasets ==
    [pop |-> [years |-> <<"2018", "2019", "2020">>,
              names |-> <<"India", "World">>,
              values |-> [India |-> <<Num(10), Num(20), Num(30)>>,
                          World |-> <<Num(100), Null, Num(300)>>]],
     income |-> [years |-> <<"2019", "2020">>,
                 names |-> <<"World", "India">>,
                 values |-> [India |-> <<Num(-5), Num(7)>>,
                             World |-> <<Num(1), Num(2)>>]],
     census |-> [years |-> <<"1990">>,
                 names |-> <<"India">>,
                 values |-> [India |-> <<Num(1)>>]]]

\* array.indexOf(x), from 0, -1 when absent
IndexOf0(seq, x) == IF Contains(seq, x) THEN First({i \in 1..Len(seq) : seq[i] = x}) - 1 ELSE -1

\* array.filter(keep), keep given as a set
RECURSIVE FilterIn(_, _)
FilterIn(seq, S) ==
    IF seq = <<>> THEN <<>>
    ELSE (IF Head(seq) \in S THEN <<Head(seq)>> ELSE <<>>) \o FilterIn(Tail(seq), S)

computeCommonYears(xKey, yKey) ==
    FilterIn(ScatterDatasets[xKey].years, Elems(ScatterDatasets[yKey].years))

\* array.sort() of the region names of the model
RECURSIVE SortNames(_)
SortNames(S) ==
    IF S = {} THEN <<>>
    ELSE LET order == <<"China", "India", "World", "X">>
             least == CHOOSE n \in S : \A m \in S : IndexOf(order, n) <= IndexOf(order, m)
         IN  <<least>> \o SortNames(S \ {least})

computeCommonRegions(xKey, yKey) ==
    SortNames(Elems(ScatterDatasets[xKey].names) \cap Elems(ScatterDatasets[yKey].names))

\* ensureYearStateAvailable: the index it settles on among years
SettledIndex(st, years) ==
    LET kept == IF st.yearIndex = NoIndex \/ st.yearIndex < 0 \/ st.yearIndex >= Len(years)
                THEN IndexOf0(years, st.year)
                ELSE st.yearIndex
    IN  IF kept = -1 THEN Len(years) - 1 ELSE kept

\* a variant that does not store the common years in state.yearOptions
ensureYearStateAvailable_KeepsOptions(st) ==
    LET years == computeCommonYears(st.xKey, st.yKey)
    IN  IF Len(years) = 0
        THEN [error |-> "Selected axes do not share any year columns.", state |-> st]
        ELSE [error |-> NoError,
              state |-> [st EXCEPT !.yearIndex = SettledIndex(st, years),
                                   !.year = years[SettledIndex(st, years) + 1]]]

\* ensureYearStateAvailable: the error thrown, or the state it leaves
ensureYearStateAvailable(st) ==
    LET years == computeCommonYears(st.xKey, st.yKey)
    IN  IF Len(years) = 0
        THEN [error |-> "Selected axes do not share any year columns.", state |-> st]
        ELSE [error |-> NoError,
              state |-> [st EXCEPT !.yearIndex = SettledIndex(st, years),
                                   !.year = years[SettledIndex(st, years) + 1],
                                   !.yearOptions = years]]

\* ensureDatasetHasYear does not throw
DatasetHasYear(datasetKey, yearLabel) == Contains(ScatterDatasets[datasetKey].years, yearLabel)

\* toNumber(series[ensureDatasetHasYear(key, yearLabel)])
ValueAt(datasetKey, regionName, yearLabel) ==
    ScatterDatasets[datasetKey].values[regionName][IndexOf0(ScatterDatasets[datasetKey].years, yearLabel) + 1]

\* a region is plotted: both values are numbers, positive where the axis is
\* logarithmic
Plotted(st, regionName) ==
    LET xValue == ValueAt(st.xKey, regionName, st.year)
        yValue == ValueAt(st.yKey, regionName, st.year)
    IN  /\ ~IsNull(xValue) /\ ~IsNull(yValue)
        /\ ~(st.logX /\ ~RLt(Num(0), xValue))
        /\ ~(st.logY /\ ~RLt(Num(0), yValue))

\* points of updateChart
Points(st, regions) ==
    [i \in 1..Len(regions) |->
        [region |-> regions[i],
         x |-> ValueAt(st.xKey, regions[i], st.year),
         y |-> ValueAt(st.yKey, regions[i], st.year)]]

\* state.pathData[point.region][yearLabel] = {x, y} for every point
RecordPaths(pathData, points, yearLabel) ==
    LET new == {<<points[i].region, yearLabel>> : i \in 1..Len(points)}
    IN  [k \in DOMAIN pathData \cup new |->
            IF k \in new
            THEN LET i == CHOOSE j \in 1..Len(points) : points[j].region = k[1]
                 IN  <<points[i].x, points[i].y>>
            ELSE pathData[k]]

NoPaths == <<>>     \* state.pathData = {}

\* resetPathData
resetPathData(st) == [st EXCEPT !.pathData = NoPaths]

ScatterResult(st, message, drawn) == [state |-> st, statusMessage |-> message, chart |-> drawn]

ScatterChart(st, points) == [drawn |-> TRUE, year |-> st.year, points |-> points]

\* updateChart once the points are collected
DrawPoints(st, points) ==
    IF Len(points) = 0
    THEN ScatterResult(st, "No numeric values available for the selected year.", Purged)
    ELSE ScatterResult(IF st.tracePaths
                       THEN [st EXCEPT !.pathData = RecordPaths(@, points, st.year)]
                       ELSE st,
                       "", ScatterChart(st, points))

\* updateChart after ensureYearStateAvailable left st
DrawYear(st, regions) ==
    IF Len(regions) = 0
    THEN ScatterResult(st, "Selected axes do not share any regions.", Purged)
    ELSE IF st.sizeKey # AUTO_VALUE /\ ~DatasetHasYear(st.sizeKey, st.year)
    THEN ScatterResult(st, "Dataset does not contain year.", Purged)
    ELSE DrawPoints(st, Points(st, FilterIn(regions, {r \in Elems(regions) : Plotted(st, r)})))

\* updateChart of the scatter plot: try { ... } catch (error) { ... }
ScatterUpdateChart(st) ==
    IF ensureYearStateAvailable(st).error # NoError
    THEN ScatterResult(st, ensureYearStateAvailable(st).error, Purged)
    ELSE DrawYear(ensureYearStateAvailable(st).state,
                  computeCommonRegions(st.xKey, st.yKey))

ScatterEvent(kind) == [kind |-> kind]

\* updateChart() at the end of handler kind
ScatterRefresh(kind, st1) ==
    /\ \E u \in {ScatterUpdateChart(st1)} :
          /\ state' = u.state
          /\ statusMessage' = u.statusMessage
          /\ chart' = u.chart
    /\ lastEvent' = ScatterEvent(kind)

\* the "change" handler of an axis select once the key is stored in st1:
\* ensureYearStateAvailable runs outside any try, so its error ends the handler
AxisChanged(kind, st1) ==
    IF ensureYearStateAvailable(st1).error # NoError
    THEN /\ state' = st1
         /\ lastEvent' = ScatterEvent(kind)
         /\ UNCHANGED <<statusMessage, chart>>
    ELSE ScatterRefresh(kind, resetPathData(ensureYearStateAvailable(st1).state))

ScatterFrame == UNCHANGED <<pc, administrations, dom, exprVars, evalVars>>

\* xAxisSelect "change"
XAxisChange(key) ==
    /\ pc = "scatter"
    /\ key # state.xKey
    /\ AxisChanged("xAxis", [state EXCEPT !.xKey = key])
    /\ ScatterFrame

\* yAxisSelect "change"
YAxisChange(key) ==
    /\ pc = "scatter"
    /\ key # state.yKey
    /\ AxisChanged("yAxis", [state EXCEPT !.yKey = key])
    /\ ScatterFrame

\* yearSlider "input"
YearInput(value) ==
    /\ pc = "scatter"
    /\ value # state.yearIndex
    /\ value >= 0 /\ value < Len(state.yearOptions)
    /\ ScatterRefresh("year", [state EXCEPT !.yearIndex = value,
                                            !.year = state.yearOptions[value + 1]])
    /\ ScatterFrame

\* sizeSelect "change"; colorSelect is handled the same way
SizeChange(key) ==
    /\ pc = "scatter"
    /\ key # state.sizeKey
    /\ ScatterRefresh("size", [state EXCEPT !.sizeKey = key])
    /\ ScatterFrame

\* xAxisLogToggle and yAxisLogToggle "change"
LogXToggle ==
    /\ pc = "scatter"
    /\ ScatterRefresh("logX", [state EXCEPT !.logX = ~@])
    /\ ScatterFrame

LogYToggle ==
    /\ pc = "scatter"
    /\ ScatterRefresh("logY", [state EXCEPT !.logY = ~@])
    /\ ScatterFrame

\* sizeLogToggle "change"; colorLogToggle is handled the same way
SizeLogToggle ==
    /\ pc = "scatter"
    /\ ScatterRefresh("sizeLog", [state EXCEPT !.sizeLog = ~@])
    /\ ScatterFrame

\* tracePathsToggle "change"
TracePathsToggle ==
    /\ pc = "scatter"
    /\ ScatterRefresh("trace", [state EXCEPT !.tracePaths = ~@])
    /\ ScatterFrame

\* clearPathsButton "click"
ClearPathsClick ==
    /\ pc = "scatter"
    /\ ScatterRefresh("clear", resetPathData(state))
    /\ ScatterFrame

\* const state = { ... } from the defaults of the payload
ScatterInitialState(xKey, yKey, year, tracePaths) ==
    [xKey |-> xKey, yKey |-> yKey, year |-> year, yearIndex |-> NoIndex, yearOptions |-> <<>>,
     sizeKey |-> AUTO_VALUE, logX |-> FALSE, logY |-> FALSE, sizeLog |-> TRUE,
     tracePaths |-> tracePaths, pathData |-> NoPaths]

\* ScatterPlot._determine_defaults: selected_year for the axes pop and pop
ScatterDefaultYears == {"2019", "2020"}

\* init(): ensureYearStateAvailable, then updateChart
InitScatter ==
    /\ pc = "scatter"
    /\ \E year \in ScatterDefaultYears, tracePaths \in BOOLEAN :
          \E u \in {ScatterUpdateChart(
                        ensureYearStateAvailable(
                            ScatterInitialState("pop", "pop", year, tracePaths)).state)} :
             /\ state = u.state
             /\ statusMessage = u.statusMessage
             /\ chart = u.chart
    /\ lastEvent = ScatterEvent("init")
    /\ administrations = <<>> /\ dom = NoDom
    /\ ExprIdle /\ EvalIdle

NextScatter ==
    \/ \E k \in 1..Len(ScatterKeys) : XAxisChange(ScatterKeys[k])
    \/ \E k \in 1..Len(ScatterKeys) : YAxisChange(ScatterKeys[k])
    \/ \E value \in 0..(Len(state.yearOptions) - 1) : YearInput(value)
    \/ \E key \in {AUTO_VALUE, "income"} : SizeChange(key)
    \/ LogXToggle
    \/ LogYToggle
    \/ SizeLogToggle
    \/ TracePathsToggle
    \/ ClearPathsClick

SpecScatter == InitScatter /\ [][NextScatter]_vars


(***************************************************************************)
(* Claims on the scatter plot                                              *)
(***************************************************************************)
AxisKinds == {"xAxis", "yAxis"}

\* C17: when the X or Y axis dataset is switched and the previously selected
\* year label is still in the new intersection of the two datasets' year
\* labels, the selected year stays that same label; it is replaced by another
\* available year only when it is no longer in the intersection.
C17_YearLabelKept ==
    [][lastEvent'.kind \in AxisKinds =>
          LET years == computeCommonYears(state'.xKey, state'.yKey)
          IN  /\ Contains(years, state.year) => state'.year = state.year
              /\ state'.year # state.year =>
                    (~Contains(years, state.year) /\ Contains(years, state'.year))]_vars

\* every entry of the history before the step is in the history after it,
\* with the same coordinates
HistoryKept ==
    \A k \in DOMAIN state.pathData :
        k \in DOMAIN state'.pathData /\ state'.pathData[k] = state.pathData[k]

\* the history after the step holds the points of the chart after the step,
\* under its year
PointsRecorded ==
    \A i \in 1..Len(chart'.points) :
        /\ <<chart'.points[i].region, state'.year>> \in DOMAIN state'.pathData
        /\ state'.pathData[<<chart'.points[i].region, state'.year>>]
              = <<chart'.points[i].x, chart'.points[i].y>>

\* the history after the step holds nothing recorded before the step
HistoryDiscarded ==
    \A k \in DOMAIN state'.pathData :
        /\ chart'.drawn
        /\ state'.tracePaths
        /\ k[2] = state'.year
        /\ \E i \in 1..Len(chart'.points) : chart'.points[i].region = k[1]

\* C18: while tracing is enabled each redraw records the plotted (x, y) of
\* every plotted region under the current year; between axis changes the
\* per-region history only grows (a recorded region/year entry is never
\* removed or given different coordinates by year changes or by log, size or
\* colour toggles), and the whole history is discarded when the X or Y axis
\* dataset changes.
C18_PathHistory ==
    [][/\ (state'.tracePaths /\ chart'.drawn /\ lastEvent'.kind # "none") => PointsRecorded
       /\ lastEvent'.kind \in {"year", "logX", "logY", "size", "sizeLog"} => HistoryKept
       /\ lastEvent'.kind \in AxisKinds => HistoryDiscarded]_vars


(***************************************************************************)
(* Specification SpecShow: show() of a LineGraph, or of a Plot of line     *)
(* graphs and HTML blocks, on an output path.                              *)
(***************************************************************************)
\* the default expressions of the graphs: valid on gdp, unknown on gdp,
\* without any series, valid on both datasets
ShowTrees ==
    {IndiaOverWorld, series("X"), Literal(Num(1)), UnaryOp("neg", series("India"))}

LineGraphs ==
    {[kind |-> "graph", default_key |-> k, default_exprs |-> e] :
        k \in {"gdp", "hist"},
        e \in {NoExprs} \cup {<<t>> : t \in ShowTrees}
                \cup {<<series("India"), Literal(Num(1))>>}}

HtmlEntry == [kind |-> "html"]

SeqsUpTo(S, n) == UNION {[1..k -> S] : k \in 0..n}

\* what show() is called on: a LineGraph, or a Plot of at most MaxGraphs entries
Items ==
    {[plot |-> FALSE, entries |-> <<g>>] : g \in LineGraphs}
        \cup {[plot |-> TRUE, entries |-> e] :
                e \in SeqsUpTo(LineGraphs \cup {HtmlEntry}, MaxGraphs)}

\* LineGraph._render_html: the defaults of the payload, or the error raised
RenderGraph(graph) ==
    [error |-> _determine_defaults(graph.default_key, graph.default_exprs).error,
     block |-> [kind |-> "graph",
                defaults |-> _determine_defaults(graph.default_key, graph.default_exprs)]]

\* the loop of Plot._render_html from entry i on, blocks rendered so far
RECURSIVE RenderEntries(_, _, _)
RenderEntries(entries, i, blocks) ==
    IF i > Len(entries) THEN [error |-> NoError, blocks |-> blocks]
    ELSE IF entries[i].kind = "html"
    THEN RenderEntries(entries, i + 1, Append(blocks, entries[i]))
    ELSE IF RenderGraph(entries[i]).error # NoError
    THEN [error |-> RenderGraph(entries[i]).error, blocks |-> blocks]
    ELSE RenderEntries(entries, i + 1, Append(blocks, RenderGraph(entries[i]).block))

\* item._render_html()
RenderItem(it) ==
    IF it.plot /\ it.entries = <<>>
    THEN [error |-> "Plot has no graphs to render. Call add() first.", blocks |-> <<>>]
    ELSE RenderEntries(it.entries, 1, <<>>)

\* output_path.write_text(html_output)
Written(blocks) == [exists |-> TRUE, content |-> blocks]

\* a variant of show() that writes each block as it is rendered
Show_WritesAsItGoes ==
    /\ pc = "ready"
    /\ \E r \in {RenderItem(item)} :
          /\ pc' = IF r.error # NoError THEN "raised" ELSE "written"
          /\ file' = IF r.blocks = <<>> THEN file ELSE Written(r.blocks)
    /\ UNCHANGED <<item, df, converted, keyArg, traceName, tree, dataKey, seriesNames, text, result, evalVars, ctrlVars>>

\* show(): render the whole document, then create the directory and write
Show ==
    /\ pc = "ready"
    /\ \E r \in {RenderItem(item)} :
          IF r.error # NoError
          THEN pc' = "raised" /\ UNCHANGED file
          ELSE pc' = "written" /\ file' = Written(r.blocks)
    /\ UNCHANGED <<item, df, converted, keyArg, traceName, tree, dataKey, seriesNames, text, result, evalVars, ctrlVars>>

InitShow ==
    /\ pc = "ready"
    /\ item \in Items
    /\ file \in {NoFile, OldFile}
    /\ tree = Literal(Num(1)) /\ dataKey = "" /\ seriesNames = <<>> /\ text = <<>>
    /\ result = NoResult /\ ConvertIdle /\ ConfigIdle /\ LabelIdle
    /\ EvalIdle /\ CtrlIdle

NextShow == Show

SpecShow == InitShow /\ [][NextShow]_vars

\* the default expressions of graph name a series absent from its default
\* dataset, or no series at all
DefaultsFail(graph) ==
    /\ graph.kind = "graph"
    /\ graph.default_exprs # NoExprs
    /\ LET named == UNION {Elems(collect_series(graph.default_exprs[i])) :
                              i \in 1..Len(graph.default_exprs)}
       IN  named = {} \/ ~(named \subseteq Elems(Datasets[graph.default_key].names))

\* C19: if resolving defaults or serialising a default expression fails (a
\* default expression names a series absent from the default dataset, or
\* references no series), show() raises before anything is written: the
\* output file is neither created nor overwritten, also when the failing graph
\* is one of several inside a Plot.
C19_FailFast ==
    /\ []((pc # "ready" /\ \E i \in 1..Len(item.entries) : DefaultsFail(item.entries[i]))
             => (pc = "raised" /\ file \in {NoFile, OldFile}))
    /\ [][pc' = "raised" => file' = file]_vars

\* the second graph of a Plot failed after the first was rendered, and the
\* file of the earlier run is as it was
C19_Witness ==
    /\ pc = "raised"
    /\ item.plot
    /\ Len(item.entries) = 2
    /\ ~DefaultsFail(item.entries[1])
    /\ DefaultsFail(item.entries[2])
    /\ file = OldFile


(***************************************************************************)
(* Specification SpecConvert: LineGraph._convert_df on a dataframe whose   *)
(* year columns carry integer, float or string labels.                     *)
(***************************************************************************)
IntLabel(n) == [type |-> "int", value |-> Num(n)]
FloatLabel(n, d) == [type |-> "float", value |-> <<n, d>>]
StrLabel(chars) == [type |-> "str", value |-> chars]

\* the decimal digits of a natural number
RECURSIVE DigitsOf(_)
DigitsOf(n) == IF n < 10 THEN <<Digits[n + 1]>> ELSE Append(DigitsOf(n \div 10), Digits[(n % 10) + 1])

\* python's str() of a column label: an int prints its digits, a float always
\* prints a fractional part, a string is itself
StrOf(label) ==
    IF label.type = "str" THEN label.value
    ELSE IF label.type = "int" THEN DigitsOf(label.value[1])
    ELSE IF label.value[2] = 1 THEN DigitsOf(label.value[1]) \o <<".", "0">>
    ELSE DigitsOf(label.value[1] \div 2) \o <<".", "5">>

ColumnLabels ==
    {IntLabel(2019), IntLabel(2020), FloatLabel(2019, 1), FloatLabel(4039, 2),
     StrLabel(<<"2", "0", "1", "9">>), StrLabel(<<"F", "Y", "1", "8">>),
     StrLabel(<<"2", "0", "1", "9", ".", "0">>)}

\* a cell: a number, a missing value, or text that float() rejects
NumberCell == [kind |-> "number", value |-> Num(1)]
MissingCell == [kind |-> "na", value |-> Null]
TextCell == [kind |-> "text", value |-> Null]

\* dataframes: with or without a Region column, at most MaxCols year columns,
\* no row or the one row of India
DataFrames ==
    {[hasRegion |-> h, columns |-> c, rows |-> r] :
        h \in BOOLEAN,
        c \in SeqsUpTo(ColumnLabels, MaxCols),
        r \in {<<>>} \cup {<<[Region |-> "India", cells |-> v]>> :
                              v \in UNION {[1..k -> {NumberCell, MissingCell, TextCell}] :
                                              k \in 0..MaxCols}}}

Raised(message) == [error |-> message, years |-> <<>>, names |-> <<>>, values |-> <<>>]

\* _convert_df
ConvertDf(frame) ==
    IF ~frame.hasRegion THEN Raised("must include a 'Region' column.")
    ELSE IF frame.columns = <<>> THEN Raised("must include at least one year column.")
    ELSE IF \E i \in 1..Len(frame.rows) : \E j \in 1..Len(frame.columns) :
               frame.rows[i].cells[j].kind = "text"
    THEN Raised("Non-numeric value encountered")
    ELSE IF frame.rows = <<>> THEN Raised("must include at least one region row.")
    ELSE [error |-> NoError,
          years |-> [j \in 1..Len(frame.columns) |-> StrOf(frame.columns[j])],
          names |-> [i \in 1..Len(frame.rows) |-> frame.rows[i].Region],
          values |-> [i \in 1..Len(frame.rows) |->
                        [j \in 1..Len(frame.columns) |-> frame.rows[i].cells[j].value]]]

Convert ==
    /\ pc = "frame"
    /\ converted' = ConvertDf(df)
    /\ pc' = IF converted'.error = NoError THEN "converted" ELSE "raised"
    /\ UNCHANGED <<df, keyArg, traceName, item, file, tree, dataKey, seriesNames, text, result, evalVars, ctrlVars>>

InitConvert ==
    /\ pc = "frame"
    /\ df \in {f \in DataFrames :
                  \A i \in 1..Len(f.rows) : Len(f.rows[i].cells) = Len(f.columns)}
    /\ converted = <<>>
    /\ tree = Literal(Num(1)) /\ dataKey = "" /\ seriesNames = <<>> /\ text = <<>>
    /\ result = NoResult /\ ShowIdle /\ ConfigIdle /\ LabelIdle
    /\ EvalIdle /\ CtrlIdle

NextConvert == Convert

SpecConvert == InitConvert /\ [][NextConvert]_vars

\* C20: dataset conversion normalizes every year column label to a canonical
\* decimal-integer string (accepting an int, a float with integral value, or
\* a numeric string) and fails for any other label, so every entry of a
\* Dataset's years is a canonical integer string.
C20_YearsCanonical ==
    LET Canonical(chars) ==
            /\ chars # <<>>
            /\ \A i \in 1..Len(chars) : IsDigit(chars[i])
            /\ Len(chars) > 1 => chars[1] # "0"
        Acceptable(label) ==
            \/ label.type = "int"
            \/ label.type = "float" /\ label.value[2] = 1
            \/ label.type = "str" /\
                  \/ Canonical(label.value)
                  \/ \E k \in 1..(Len(label.value) - 2) :
                        /\ Canonical(SubSeq(label.value, 1, k))
                        /\ SubSeq(label.value, k + 1, Len(label.value)) = <<".", "0">>
    IN  /\ pc = "converted" =>
              /\ \A j \in 1..Len(converted.years) : Canonical(converted.years[j])
              /\ \A j \in 1..Len(df.columns) : Acceptable(df.columns[j])
        /\ (pc = "raised" /\ df.hasRegion /\ df.columns # <<>> /\ df.rows # <<>>
              /\ \A j \in 1..Len(df.columns) : df.rows[1].cells[j].kind # "text")
              => \E j \in 1..Len(df.columns) : ~Acceptable(df.columns[j])

(***************************************************************************)
(* Administration bands against the displayed X-domain                     *)
(***************************************************************************)
\* the administrations of the dataset on display
ShownAdmins == AdminsOf(administrations, state.datasetKey)

\* the displayed years are all numbers
ShownNumeric == UseNumericYears(NumericYears(chart.x))

\* the interval of administration record a contains a displayed year
IntersectsShown(a) ==
    \E k \in 1..Len(chart.x) :
        /\ ~IsNaN(LabelNumber(chart.x[k]))
        /\ ~RLt(LabelNumber(chart.x[k]), LabelNumber(a.start))
        /\ ~RLt(LabelNumber(a.end), LabelNumber(chart.x[k]))

\* with numeric years: the interval reaches into [first, last] displayed year
IntersectsRange(a) ==
    /\ ~RLt(LabelNumber(chart.x[Len(chart.x)]), LabelNumber(a.start))
    /\ ~RLt(LabelNumber(a.end), LabelNumber(chart.x[1]))

BandOf(i) == {k \in 1..Len(chart.rectangles) : chart.rectangles[k].admin = i}

\* C21: a shaded band is drawn for an administration record if and only if its
\* [start, end] interval intersects the displayed X-domain, both when years
\* are numeric and when years are shown as categories; with numeric years the
\* band's ends are clipped to the displayed domain.
C21_BandIffIntersects ==
    chart.drawn =>
        \A i \in 1..Len(ShownAdmins) :
            /\ BandOf(i) # {} <=>
                  IF ShownNumeric THEN IntersectsRange(ShownAdmins[i])
                  ELSE IntersectsShown(ShownAdmins[i])
            /\ ShownNumeric =>
                  \A k \in BandOf(i) :
                      /\ chart.rectangles[k].x0 =
                            RMax(LabelNumber(ShownAdmins[i].start), LabelNumber(chart.x[1]))
                      /\ chart.rectangles[k].x1 =
                            RMin(LabelNumber(ShownAdmins[i].end), LabelNumber(chart.x[Len(chart.x)]))


(***************************************************************************)
(* collect_series against the leaves of the tree                           *)
(***************************************************************************)
\* the series names at the leaves of t from left to right, repeats included
RECURSIVE LeafSeries(_)
LeafSeries(t) ==
    IF t.kind = "series" THEN <<t.name>>
    ELSE IF t.kind = "literal" THEN <<>>
    ELSE IF t.kind = "neg" THEN LeafSeries(t.operand)
    ELSE LeafSeries(t.left) \o LeafSeries(t.right)

FirstAt(seq, x) == First({k \in 1..Len(seq) : seq[k] = x})

\* C22: collect_series returns each series name that occurs in the tree
\* exactly once, ordered by first occurrence in a left-to-right pre-order
\* traversal; literals contribute nothing and the tree is not modified.
C22_CollectSeries ==
    [][pc' = "rendered" =>
          /\ tree' = tree
          /\ Elems(seriesNames') = Elems(LeafSeries(tree))
          /\ \A i, j \in 1..Len(seriesNames') :
                i < j => /\ seriesNames'[i] # seriesNames'[j]
                         /\ FirstAt(LeafSeries(tree), seriesNames'[i])
                               < FirstAt(LeafSeries(tree), seriesNames'[j])]_vars

\* a tree that names World before India and repeats a name
C22_Witness ==
    /\ pc = "rendered"
    /\ seriesNames = <<"World", "India">>
    /\ Len(LeafSeries(tree)) = 3


(***************************************************************************)
(* Specification SpecConfig: LineGraph.default_df(key) on a new graph,     *)
(* then the defaults show() resolves.                                      *)
(***************************************************************************)
\* the characters of the dataset keys
KeyChars ==
    [gdp |-> <<"g", "d", "p">>,
     hist |-> <<"h", "i", "s", "t">>,
     fiscal |-> <<"f", "i", "s", "c", "a", "l">>]

IsPrefix(p, s) == Len(p) <= Len(s) /\ SubSeq(s, 1, Len(p)) = p

\* the keys a script may pass: every prefix of a dataset key, and a stranger
KeyArgs ==
    UNION {{SubSeq(KeyChars[k], 1, n) : n \in 1..Len(KeyChars[k])} : k \in Elems(DatasetKeys)}
        \cup {<<"x">>}

\* key in self._datasets
KnownKeys(key) == {k \in Elems(DatasetKeys) : KeyChars[k] = key}

default_df ==
    /\ pc = "new"
    /\ IF KnownKeys(keyArg) = {}
       THEN pc' = "raised" /\ UNCHANGED dataKey
       ELSE pc' = "built" /\ dataKey' \in KnownKeys(keyArg)
    /\ UNCHANGED <<keyArg, traceName, tree, seriesNames, text, result, item, file, df, converted,
                   evalVars, ctrlVars>>

MaxConfigNodes == 3

InitConfig ==
    /\ pc = "new"
    /\ keyArg \in KeyArgs
    /\ tree \in Trees(MaxConfigNodes)
    /\ dataKey = ""
    /\ seriesNames = <<>> /\ text = <<>> /\ result = NoResult
    /\ ShowIdle /\ ConvertIdle /\ LabelIdle
    /\ EvalIdle /\ CtrlIdle

NextConfig == default_df \/ Render \/ Evaluate

SpecConfig == InitConfig /\ [][NextConfig]_vars

\* the dataset keys that key is a prefix of
Completions(key) == {k \in Elems(DatasetKeys) : IsPrefix(key, KeyChars[k])}

\* C23: LineGraph.default_df(key) accepts a key that is a prefix of a dataset
\* key: the full dataset key becomes the default dataset, and the resolved
\* defaults then use that full key.
C23_PrefixAccepted ==
    [][(pc = "new" /\ pc' # "new" /\ Completions(keyArg) # {}) =>
          (pc' = "built" /\ dataKey' \in Completions(keyArg))]_vars


(***************************************************************************)
(* Specification SpecScatterShow: show() of a ScatterPlot, whose defaults  *)
(* ScatterPlot._determine_defaults resolves.                               *)
(***************************************************************************)
None == "None"

\* the orders in which at most n of the datasets can be handed to ScatterPlot
KeyOrders(n) ==
    {ks \in UNION {[1..k -> Elems(ScatterKeys)] : k \in 1..n} :
        \A i, j \in 1..Len(ks) : i # j => ks[i] # ks[j]}

MaxDatasets == 3

\* a ScatterPlot after default_axes, default_year and default_size, each
\* called or not; default_axes has stored the keys it resolved
ScatterPlots ==
    {[kind |-> "scatter", datasets |-> ks, default_x |-> ax[1], default_y |-> ax[2],
      default_year |-> yr, default_size |-> sz, default_color |-> None] :
        ks \in KeyOrders(MaxDatasets),
        ax \in {<<None, None>>} \cup (Elems(ScatterKeys) \X Elems(ScatterKeys)),
        yr \in {None, "2019", "1990"},
        sz \in {None} \cup Elems(ScatterKeys)}

ScatterRaised(message) ==
    [error |-> message, x_key |-> None, y_key |-> None, year |-> None,
     size_key |-> None, color_key |-> None]

\* the tail of _determine_defaults: size_key and color_key for selected_year
SizeAndColor(plot, x_key, y_key, selected_year) ==
    IF plot.default_size # None
          /\ ~Contains(ScatterDatasets[plot.default_size].years, selected_year)
    THEN ScatterRaised("does not contain year required for default size series.")
    ELSE IF plot.default_color # None
          /\ ~Contains(ScatterDatasets[plot.default_color].years, selected_year)
    THEN ScatterRaised("does not contain year required for default colour series.")
    ELSE [error |-> NoError, x_key |-> x_key, y_key |-> y_key, year |-> selected_year,
          size_key |-> plot.default_size, color_key |-> plot.default_color]

\* common_years and available_regions of the axes, then selected_year
YearAndRegions(plot, x_key, y_key, common_years) ==
    IF common_years = <<>> THEN ScatterRaised("do not share any year columns.")
    ELSE IF computeCommonRegions(x_key, y_key) = <<>>
    THEN ScatterRaised("do not share any region names.")
    ELSE SizeAndColor(plot, x_key, y_key,
                      IF plot.default_year # None /\ Contains(common_years, plot.default_year)
                      THEN plot.default_year
                      ELSE common_years[Len(common_years)])

\* next((key for key in self._datasets if key != x_key), x_key)
FirstOther(keys, x_key) ==
    IF \E i \in 1..Len(keys) : keys[i] # x_key
    THEN keys[First({i \in 1..Len(keys) : keys[i] # x_key})]
    ELSE x_key

\* a variant whose default Y axis is the X axis
DefaultAxes_YIsX(plot) ==
    [x_key |-> IF plot.default_x # None THEN plot.default_x ELSE plot.datasets[1],
     y_key |-> IF plot.default_y # None THEN plot.default_y
               ELSE IF plot.default_x # None THEN plot.default_x ELSE plot.datasets[1]]

\* x_key and y_key of _determine_defaults
DefaultAxes(plot) ==
    [x_key |-> IF plot.default_x # None THEN plot.default_x ELSE plot.datasets[1],
     y_key |-> IF plot.default_y # None THEN plot.default_y
               ELSE FirstOther(plot.datasets,
                               IF plot.default_x # None THEN plot.default_x
                               ELSE plot.datasets[1])]

\* ScatterPlot._determine_defaults
ScatterDefaults(plot) ==
    YearAndRegions(plot, DefaultAxes(plot).x_key, DefaultAxes(plot).y_key,
                   computeCommonYears(DefaultAxes(plot).x_key, DefaultAxes(plot).y_key))

\* ScatterPlot.show: render the document with the defaults, then write it
ScatterShow ==
    /\ pc = "ready"
    /\ \E d \in {ScatterDefaults(item)} :
          IF d.error # NoError
          THEN pc' = "raised" /\ UNCHANGED file
          ELSE pc' = "written" /\ file' = Written(<<[kind |-> "scatter", defaults |-> d]>>)
    /\ UNCHANGED <<item, df, converted, keyArg, traceName, tree, dataKey, seriesNames, text, result,
                   evalVars, ctrlVars>>

InitScatterShow ==
    /\ pc = "ready"
    /\ item \in {p \in ScatterPlots :
                    /\ p.default_x # None => Contains(p.datasets, p.default_x)
                    /\ p.default_y # None => Contains(p.datasets, p.default_y)
                    /\ p.default_size # None => Contains(p.datasets, p.default_size)}
    /\ file \in {NoFile, OldFile}
    /\ tree = Literal(Num(1)) /\ dataKey = "" /\ seriesNames = <<>> /\ text = <<>>
    /\ result = NoResult /\ ConvertIdle /\ ConfigIdle /\ LabelIdle
    /\ EvalIdle /\ CtrlIdle

NextScatterShow == ScatterShow

SpecScatterShow == InitScatterShow /\ [][NextScatterShow]_vars

\* C24: with no axes configured, the default X axis is the first dataset key
\* and the default Y axis is the first dataset key different from X; Y equals
\* X only when there is a single dataset.
C24_DefaultAxes ==
    (pc = "written" /\ item.default_x = None /\ item.default_y = None) =>
        /\ file.content[1].defaults.x_key = item.datasets[1]
        /\ file.content[1].defaults.y_key =
              IF Len(item.datasets) = 1 THEN item.datasets[1] ELSE item.datasets[2]
        /\ file.content[1].defaults.y_key = file.content[1].defaults.x_key
              <=> Len(item.datasets) = 1

\* income was handed over before pop, and pop is the default Y axis
C24_Witness ==
    /\ pc = "written"
    /\ item.default_x = None /\ item.default_y = None
    /\ item.datasets = <<"income", "pop">>
    /\ file.content[1].defaults.x_key = "income"
    /\ file.content[1].defaults.y_key = "pop"


(***************************************************************************)
(* Specification SpecInfix: evaluateExpression on the well-formed infix    *)
(* expressions of at most MaxInfix tokens, against the reference reading.  *)
(***************************************************************************)
InfixOperands == {"1", "2", "3"}
InfixTokens == InfixOperands \cup {"+", "-", "*", "/", "(", ")"}

\* the series of the one slot: "1" names it, "2" and "3" are literals
InfixSeries == RegionSeriesOf(Datasets["hist"], <<"X">>)

\* the value of an operand, as an array over the years
OperandArray(ch, regs) ==
    IF ch = "1" THEN regs[1].values
    ELSE [i \in 1..YearsOf(regs) |-> Num(DigitValue(ch))]

Reading(ok, value, next) == [ok |-> ok, value |-> value, next |-> next]
NoReading == Reading(FALSE, <<>>, 0)

\* the reference reading by recursive descent:
\*   sum     ::= product (("+" | "-") product)*
\*   product ::= unary (("*" | "/") unary)*
\*   unary   ::= "-" unary | primary
\*   primary ::= operand | "(" sum ")"
RECURSIVE ReadSum(_, _, _)
RECURSIVE ReadSumTail(_, _, _)
RECURSIVE ReadProduct(_, _, _)
RECURSIVE ReadProductTail(_, _, _)
RECURSIVE ReadUnary(_, _, _)

ReadClose(toks, e) ==
    IF e.ok /\ e.next <= Len(toks) /\ toks[e.next] = ")"
    THEN Reading(TRUE, e.value, e.next + 1)
    ELSE NoReading

ReadPrimary(toks, p, regs) ==
    IF p > Len(toks) THEN NoReading
    ELSE IF toks[p] \in InfixOperands THEN Reading(TRUE, OperandArray(toks[p], regs), p + 1)
    ELSE IF toks[p] = "(" THEN ReadClose(toks, ReadSum(toks, p + 1, regs))
    ELSE NoReading

ReadNegated(u) == IF u.ok THEN Reading(TRUE, NegateArray(u.value), u.next) ELSE NoReading

ReadUnary(toks, p, regs) ==
    IF p <= Len(toks) /\ toks[p] = "-" THEN ReadNegated(ReadUnary(toks, p + 1, regs))
    ELSE ReadPrimary(toks, p, regs)

ReadJoined(op, left, right) ==
    IF right.ok
    THEN Reading(TRUE, BinaryArray(op, left.value, right.value, Len(left.value)), right.next)
    ELSE NoReading

ReadProductTail(toks, left, regs) ==
    IF left.ok /\ left.next <= Len(toks) /\ toks[left.next] \in {"*", "/"}
    THEN ReadProductTail(toks, ReadJoined(toks[left.next], left,
                                          ReadUnary(toks, left.next + 1, regs)), regs)
    ELSE left

ReadProduct(toks, p, regs) == ReadProductTail(toks, ReadUnary(toks, p, regs), regs)

ReadSumTail(toks, left, regs) ==
    IF left.ok /\ left.next <= Len(toks) /\ toks[left.next] \in {"+", "-"}
    THEN ReadSumTail(toks, ReadJoined(toks[left.next], left,
                                      ReadProduct(toks, left.next + 1, regs)), regs)
    ELSE left

ReadSum(toks, p, regs) == ReadSumTail(toks, ReadProduct(toks, p, regs), regs)

\* the whole sequence is one sum
WellFormed(toks, regs) ==
    ReadSum(toks, 1, regs).ok /\ ReadSum(toks, 1, regs).next = Len(toks) + 1

InfixTexts(n, regs) ==
    {t \in UNION {[1..k -> InfixTokens] : k \in 1..n} : WellFormed(t, regs)}

InitInfix ==
    /\ regionSeries = InfixSeries
    /\ exprText \in InfixTexts(MaxInfix, InfixSeries)
    /\ tokens = <<>> /\ rpn = <<>> /\ pos = 0 /\ stack = <<>> /\ lastStep = NoStep
    /\ pc = "start"
    /\ ExprIdle /\ CtrlIdle

SpecInfix == InitInfix /\ [][NextEval]_vars

\* C25: for every well-formed infix token sequence (bounded length) over
\* operands, + - * /, unary minus and parentheses, the shunting-yard output
\* evaluates to the value of the reference reading in which binary operators
\* are left-associative, * and / bind tighter than + and -, unary minus binds
\* tighter than every binary operator, and a '-' is unary exactly at the
\* start, after another operator or after '('.
C25_ReferenceReading ==
    /\ pc # "failed"
    /\ pc = "done" =>
          /\ result.error = NoError
          /\ result.values = ReadSum(exprText, 1, regionSeries).value

\* 2 - 3 - 1 has been evaluated as (2 - 3) - 1
C25_Witness ==
    /\ pc = "done"
    /\ exprText = <<"2", "-", "3", "-", "1">>
    /\ result.values = <<Num(-6), Null, Num(1)>>


(***************************************************************************)
(* Axis changes of the scatter plot that leave no common year              *)
(***************************************************************************)
\* C26: switching the X or Y axis to a dataset that shares no year label with
\* the other axis is caught like any runtime error: the handler ends with the
\* chart cleared and a status message shown, and no exception escapes the
\* event handler.
C26_NoCommonYearCaught ==
    [][(lastEvent'.kind \in AxisKinds
           /\ computeCommonYears(state'.xKey, state'.yKey) = <<>>)
          => (chart' = Purged /\ statusMessage' # "")]_vars


(***************************************************************************)
(* Series references stay within the series handed to the evaluation       *)
(***************************************************************************)
UndefinedSeries == "Expression references series #N which is undefined."

\* C27: every series-reference token the parser emits has a 0-based index in
\* [0, N-1] for the N series passed to the same evaluation, so for no
\* expression text and no N does evaluateExpression raise the 'references
\* series #k which is undefined' error: an integer token above N is evaluated
\* as a numeric literal instead.
C27_ReferencesInRange ==
    /\ \A i \in 1..Len(rpn) :
          rpn[i].type = "region" => (0 <= rpn[i].index /\ rpn[i].index < Len(regionSeries))
    /\ result.error # UndefinedSeries
    /\ (pc \in {"eval", "done"} /\ Len(tokens) = 1 /\ IsNumberToken(tokens[1])
          /\ ~HasDot(tokens[1])
          /\ RLt(Num(Len(regionSeries)), ToNumber(tokens[1])))
          => rpn = <<LiteralToken(ToNumber(tokens[1]))>>

\* "3" with two series has been evaluated as the number 3
C27_Witness ==
    /\ pc = "done"
    /\ exprText = <<"3">>
    /\ Len(regionSeries) = 2
    /\ rpn = <<LiteralToken(Num(3))>>
    /\ result.error = NoError
    /\ \A i \in 1..Len(result.values) : result.values[i] = Num(3)


(***************************************************************************)
(* Removing a series slot and the expressions that name slots by position  *)
(***************************************************************************)
\* the number tokens of the parsed text t are read against count slots:
\* an integer k <= count is the series at position k, any other a literal
ReadPositionally(t, r, count) ==
    \A k \in 1..Len(SelectSeq(t.tokens, IsNumberToken)) :
        \A token \in {SelectSeq(t.tokens, IsNumberToken)[k]} :
        \A operand \in {SelectSeq(r.output, IsOperand)[k]} :
            IF ~HasDot(token) /\ InRange(ToNumber(token), 1, count)
            THEN operand = RegionToken(ToNumber(token)[1] - 1)
            ELSE operand = LiteralToken(ToNumber(token))

\* expression text txt is evaluated against the slots names of dataset ds and
\* drawn as trace y over the displayed years lo..hi
DrawnPositionally(txt, names, ds, y, lo, hi) ==
    \A t \in {tokenize(Trim(txt))} :
    \A r \in {shuntingYard(t.tokens, Len(names))} :
    \A e \in {evaluateExpression(Trim(txt), RegionSeriesOf(ds, names), Len(ds.years))} :
        /\ e.error = NoError
        /\ e.error # UndefinedSeries
        /\ ReadPositionally(t, r, Len(names))
        /\ y = SubSeq(e.values, lo, hi)

\* C28: removing series slot i leaves every expression text unchanged; at the
\* next recompute each integer token k is resolved positionally against the
\* shortened slot list, so it denotes the series now at position k (slots
\* after i have shifted down by one) and a token equal to the old slot count
\* is evaluated as a numeric literal, without any error.
C28_RemovalKeepsTexts ==
    [][(lastEvent'.kind = "removeSeries" /\ lastEvent'.recomputed) =>
          /\ state'.expressions = state.expressions
          /\ \E i \in 1..Len(state.regionNames) :
                state'.regionNames = RemoveAt(state.regionNames, i)
          /\ statusMessage' # UndefinedSeries
          /\ chart'.drawn =>
                \E lo, hi \in 1..Len(getDataset(state'.datasetKey).years) :
                    /\ chart'.x = SubSeq(getDataset(state'.datasetKey).years, lo, hi)
                    /\ \A n \in 1..Len(state'.expressions) :
                          DrawnPositionally(state'.expressions[n], state'.regionNames,
                                            getDataset(state'.datasetKey),
                                            chart'.traces[n].y, lo, hi)]_vars

\* the second of two slots was removed and "1 / 2" is now the first series
\* over the number 2
C28_Witness ==
    /\ lastEvent.kind = "removeSeries" /\ lastEvent.recomputed
    /\ state.datasetKey = "gdp"
    /\ state.regionNames = <<"World">>
    /\ state.expressions = << <<"1", " ", "/", " ", "2">> >>
    /\ chart.drawn
    /\ chart.traces[1].y = <<Num(90), Num(100), Num(110)>>


(***************************************************************************)
(* The year state of the scatter plot                                      *)
(***************************************************************************)
\* seq lists, in the order of xs, exactly the entries of xs that are in ys
IntersectionInOrder(seq, xs, ys) ==
    /\ Elems(seq) = Elems(xs) \cap Elems(ys)
    /\ \A i, j \in 1..Len(seq) :
          i < j => FirstAt(xs, seq[i]) < FirstAt(xs, seq[j])

\* C29: after every event handler that completes without an error,
\* yearOptions is the intersection of the current X and Y datasets' year
\* labels in X order, 0 <= yearIndex < length of yearOptions, and the selected
\* year equals yearOptions[yearIndex].
C29_YearState ==
    (pc = "scatter"
        /\ Elems(ScatterDatasets[state.xKey].years)
              \cap Elems(ScatterDatasets[state.yKey].years) # {}) =>
        /\ IntersectionInOrder(state.yearOptions, ScatterDatasets[state.xKey].years,
                               ScatterDatasets[state.yKey].years)
        /\ 0 <= state.yearIndex
        /\ state.yearIndex < Len(state.yearOptions)
        /\ state.year = state.yearOptions[state.yearIndex + 1]

\* the X axis was switched from pop to income: two common years are left
C29_Witness ==
    /\ pc = "scatter"
    /\ lastEvent.kind = "xAxis"
    /\ state.xKey = "income" /\ state.yKey = "pop"
    /\ state.yearOptions = <<"2019", "2020">>
    /\ state.yearIndex = 1
    /\ state.year = "2020"


(***************************************************************************)
(* Specification SpecLabel: a trace of updateChart, evaluated by           *)
(* evaluateExpression and then named by expressionDisplayLabel.            *)
(***************************************************************************)
\* the series of the slots: the region names are texts
NamedSeries ==
    { <<[index |-> 0, name |-> <<"I", "n", "d", "i", "a">>,
         values |-> Datasets["gdp"].values["India"]]>>,
      <<[index |-> 0, name |-> <<"G", "u", "i", "n", "e", "a", "-", "B", "i", "s", "s", "a", "u">>,
         values |-> Datasets["gdp"].values["World"]]>>,
      <<[index |-> 0, name |-> <<"I", "n", "d", "i", "a">>,
         values |-> Datasets["gdp"].values["India"]],
        [index |-> 1, name |-> <<"G", "u", "i", "n", "e", "a", "-", "B", "i", "s", "s", "a", "u">>,
         values |-> Datasets["gdp"].values["World"]]>> }

\* tokens.map(...): the part of one token
LabelPart(token, regs) ==
    IF token \in {<<"(">>, <<")">>, <<"+">>, <<"-">>, <<"*">>, <<"/">>} THEN token
    ELSE IF ~HasDot(token) /\ InRange(RSub(ToNumber(token), Num(1)), 0, Len(regs) - 1)
    THEN regs[ToNumber(token)[1]].name
    ELSE token

\* parts.join(" ")
RECURSIVE JoinParts(_, _)
JoinParts(parts, i) ==
    IF i > Len(parts) THEN <<>>
    ELSE IF i = Len(parts) THEN parts[i]
    ELSE parts[i] \o <<" ">> \o JoinParts(parts, i + 1)

\* the index after the run of white space that starts at i
RECURSIVE SpaceEnd(_, _)
SpaceEnd(s, i) == IF i <= Len(s) /\ IsSpace(s[i]) THEN SpaceEnd(s, i + 1) ELSE i

\* label.replace(/\s+([)])/g, "$1")
RECURSIVE BeforeClose(_, _)
BeforeClose(s, i) ==
    IF i > Len(s) THEN <<>>
    ELSE IF IsSpace(s[i]) /\ SpaceEnd(s, i) <= Len(s) /\ s[SpaceEnd(s, i)] = ")"
    THEN BeforeClose(s, SpaceEnd(s, i))
    ELSE <<s[i]>> \o BeforeClose(s, i + 1)

\* label.replace(/([(])\s+/g, "$1")
RECURSIVE AfterOpen(_, _)
AfterOpen(s, i) ==
    IF i > Len(s) THEN <<>>
    ELSE IF s[i] = "(" THEN <<"(">> \o AfterOpen(s, SpaceEnd(s, i + 1))
    ELSE <<s[i]>> \o AfterOpen(s, i + 1)

\* label.replace(/\s*([+\-*/])\s*/g, " $1 ")
RECURSIVE AroundOperators(_, _)
AroundOperators(s, i) ==
    IF i > Len(s) THEN <<>>
    ELSE IF SpaceEnd(s, i) <= Len(s) /\ s[SpaceEnd(s, i)] \in {"+", "-", "*", "/"}
    THEN <<" ", s[SpaceEnd(s, i)], " ">> \o AroundOperators(s, SpaceEnd(s, SpaceEnd(s, i) + 1))
    ELSE <<s[i]>> \o AroundOperators(s, i + 1)

\* label.replace(/\s+/g, " ")
RECURSIVE CollapseSpaces(_, _)
CollapseSpaces(s, i) ==
    IF i > Len(s) THEN <<>>
    ELSE IF IsSpace(s[i]) THEN <<" ">> \o CollapseSpaces(s, SpaceEnd(s, i))
    ELSE <<s[i]>> \o CollapseSpaces(s, i + 1)

\* expressionDisplayLabel on the tokens of the expression
LabelOf(toks, regs) ==
    Trim(CollapseSpaces(
            AroundOperators(
                AfterOpen(
                    BeforeClose(JoinParts([k \in 1..Len(toks) |-> LabelPart(toks[k], regs)], 1),
                                1),
                    1),
                1),
            1))

expressionDisplayLabel(expression, regs) ==
    IF tokenize(expression).error # NoError
    THEN [error |-> tokenize(expression).error, label |-> <<>>]
    ELSE [error |-> NoError, label |-> LabelOf(tokenize(expression).tokens, regs)]

\* const label = expressionDisplayLabel(exprText, regionSeries), after the
\* values of the trace are evaluated
LabelStep ==
    /\ pc = "done"
    /\ traceName' = expressionDisplayLabel(exprText, regionSeries).label
    /\ pc' = "named"
    /\ UNCHANGED <<exprText, regionSeries, tokens, rpn, pos, stack, lastStep,
                   tree, dataKey, seriesNames, text, result, item, file, df, converted,
                   keyArg, ctrlVars>>

InitLabel ==
    /\ exprText \in ExprTexts
    /\ regionSeries \in NamedSeries
    /\ tokens = <<>> /\ rpn = <<>> /\ pos = 0 /\ stack = <<>> /\ lastStep = NoStep
    /\ pc = "start"
    /\ ExprIdle /\ CtrlIdle

NextLabel == NextEval \/ LabelStep

SpecLabel == InitLabel /\ [][NextLabel]_vars

\* what stands for token k of the text in a label: the name of the series the
\* evaluator reads for it, or the token as written
Substituted(k) ==
    IF IsNumberToken(tokens[k])
    THEN \* the operand of the RPN that was parsed from this number token
         LET operand == Operands[Cardinality({j \in 1..k : IsNumberToken(tokens[j])})]
         IN  IF operand.type = "region" THEN regionSeries[operand.index + 1].name
             ELSE tokens[k]
    ELSE tokens[k]

\* the blank between two neighbouring tokens of a label: none inside a
\* parenthesis, one around every operator and elsewhere
Blank(a, b) ==
    IF (a = <<"(">> /\ b \notin {<<"+">>, <<"-">>, <<"*">>, <<"/">>})
          \/ (b = <<")">> /\ a \notin {<<"+">>, <<"-">>, <<"*">>, <<"/">>})
    THEN <<>> ELSE <<" ">>

RECURSIVE LaidOut(_)
LaidOut(k) ==
    IF k > Len(tokens) THEN <<>>
    ELSE IF k = Len(tokens) THEN Substituted(k)
    ELSE Substituted(k) \o Blank(tokens[k], tokens[k + 1]) \o LaidOut(k + 1)

\* C30: for every expression text that evaluates and every series slot list,
\* expressionDisplayLabel replaces exactly the tokens that the parser
\* classifies as series references, each by the name of the series whose
\* values the evaluator uses for it, and leaves every literal token as
\* written.
C30_LabelAgrees ==
    pc = "named" => traceName = LaidOut(1)


====
